---- MODULE Spec2Model ----
(***************************************************************************)
(* Model of the project evaluator: the quality aggregator                  *)
(* (analyzer/quality.py), the scoring engine (scorer/score.py), the        *)
(* recommendation engine (recommender/suggest.py) and the structural       *)
(* scanner (scanner/stats.py).                                             *)
(*                                                                         *)
(* Numbers.  Python floats are modelled as fixed-point integers in         *)
(* hundredths: a complexity of 3.0 is 300, a score of 59.5 is 5950.  A     *)
(* product with a two-decimal factor (0.7, a weight) is carried in         *)
(* ten-thousandths and brought back by Round2, the model of round(x, 2).   *)
(* A mean is the integer quotient of the sum in hundredths; the value sets *)
(* below are chosen so that no mean lies within 0.01 of a threshold.       *)
(***************************************************************************)
EXTENDS Integers, Sequences, FiniteSets, TLC

VARIABLES
    \* ---- analyze_repository (analyzer/quality.py) ----
    repo,                 \* the candidate files of the tree, in filesystem order
    root_test,            \* TRUE iff str(repo_path).lower() contains "test"
    max_files,            \* the max_files argument
    a_pc,                 \* position in analyze_repository
    ext_i,                \* index of the current extension in source_extensions
    pending,              \* rest of the current rglob result (indices into repo)
    files_processed,      \* local counter files_processed
    metrics,              \* the QualityMetrics object being filled
    all_complexities,     \* local list
    all_maintainability,  \* local list
    calls,                \* files handed to analyze_file so far (indices into repo)
    cq_score,             \* calculate_code_quality_score(metrics) once returned
    \* ---- scoring and recommendation (scorer/score.py, recommender/suggest.py) ----
    config_file,          \* what opening and parsing the configuration file gives
    config,               \* ScoringEngine.config
    project_stats,        \* the ProjectStats handed to the scorer
    quality_metrics,      \* the QualityMetrics handed to the scorer
    scores,               \* the EvaluationScores returned by calculate_scores
    recommendations,      \* the list returned by generate_recommendations
    e_pc,                 \* position in the score / recommend stages
    \* ---- scan (scanner/stats.py) ----
    fs,                   \* the tree below repo_path: its entries in listing order
    ignore_patterns,      \* the ignore_patterns argument of ProjectScanner
    walk_todo,            \* directories os.walk has still to yield
    visited_dirs,         \* directories os.walk has yielded
    read_files,           \* files handed to count_lines
    scan_stats,           \* the ProjectStats object being filled
    max_lines,            \* local max_lines
    largest_file,         \* local largest_file
    s_pc,                 \* position in scan
    \* ---- evaluate (main.py) ----
    repo_root,            \* what repo_path is when scan starts
    checkout,             \* the tree below repo_path, as the scanner and the analyzer read it
    fetched,              \* what fetcher.fetch returns in this run
    output_format,        \* the output_format argument
    stages,               \* the stages started so far, in order
    result,               \* the return value of evaluate, "running" until it returns
    report,               \* the report produced so far: "none", "terminal" or "json"
    exit_code,            \* the return value of main
    p_pc,                 \* position in evaluate
    \* ---- fetch (fetcher/github.py) ----
    url,                  \* the url argument
    force_refresh,        \* the force_refresh argument
    cache,                \* the directory cache_dir / repo_name
    clone_outcome,        \* what clone_repository meets in this call
    fetch_calls,          \* calls of fetch so far
    clones,               \* calls of git.Repo.clone_from so far
    deletions,            \* calls of shutil.rmtree so far
    fetch_result,         \* the return value of fetch
    f_pc                  \* position in fetch

avars == <<repo, root_test, max_files, a_pc, ext_i, pending, files_processed,
           metrics, all_complexities, all_maintainability, calls, cq_score>>

evars == <<config_file, config, project_stats, quality_metrics, scores, recommendations, e_pc>>

svars == <<fs, ignore_patterns, walk_todo, visited_dirs, read_files, scan_stats,
           max_lines, largest_file, s_pc>>

pvars == <<repo_root, checkout, fetched, output_format, stages, result, report, exit_code,
           p_pc>>

fvars == <<url, force_refresh, cache, clone_outcome, fetch_calls, clones, deletions,
           fetch_result, f_pc>>

vars == <<avars, evars, svars, pvars, fvars>>

-----------------------------------------------------------------------------
(* Bounds of the model *)

MaxRepoFiles == 3
MaxFilesCap == 2
MaxLines == 3
MaxFetchCalls == 2

-----------------------------------------------------------------------------
(* Helpers for Python built-ins and the statistics module *)

RECURSIVE SumSeq(_)
SumSeq(s) == IF s = <<>> THEN 0 ELSE Head(s) + SumSeq(Tail(s))

MaxSeq(s) == CHOOSE x \in {s[i] : i \in 1..Len(s)} : \A j \in 1..Len(s) : s[j] <= x

MinSeq(s) == CHOOSE x \in {s[i] : i \in 1..Len(s)} : \A j \in 1..Len(s) : x <= s[j]

\* statistics.mean on a non-empty list (values in hundredths)
mean(s) == SumSeq(s) \div Len(s)

\* sorted(): insertion into an ascending sequence
RECURSIVE InsertSorted(_, _)
InsertSorted(x, s) ==
    IF s = <<>> THEN <<x>>
    ELSE IF x < Head(s) THEN <<x>> \o s
    ELSE <<Head(s)>> \o InsertSorted(x, Tail(s))

RECURSIVE sorted(_)
sorted(s) == IF s = <<>> THEN <<>> ELSE InsertSorted(Head(s), sorted(Tail(s)))

\* statistics.median on a non-empty list: the middle value, or the mean of
\* the two middle values
median(s) ==
    LET t == sorted(s)
        n == Len(t)
    IN IF n % 2 = 1 THEN t[(n + 1) \div 2]
       ELSE (t[n \div 2] + t[n \div 2 + 1]) \div 2

Min2(a, b) == IF a <= b THEN a ELSE b
Max2(a, b) == IF a >= b THEN a ELSE b

\* A float literal or integer of the source, in hundredths
F(n) == n * 100

\* round(x, 2) for x given in ten-thousandths; the result is in hundredths.
\* Ties go to the even neighbour, as Python's round does on an exact tie.
Round2(x) ==
    LET q == x \div 100
        r == x % 100
    IN IF r < 50 THEN q
       ELSE IF r > 50 THEN q + 1
       ELSE IF q % 2 = 0 THEN q ELSE q + 1

-----------------------------------------------------------------------------
(* analyzer/quality.py *)

\* What the tree holds for one candidate file and what the external
\* analyzers (radon, lizard) report for it:
\*   ext     the file's suffix, lower-cased
\*   test    TRUE iff the path below the root contains "test" (any case)
\*   raises  TRUE iff the per-file analysis raises
\*   funcs   the cyclomatic complexity of each function found
\*   mi      radon's maintainability index, in hundredths
\*   loc     the line count the analyzer reports
PySimple  == [ext |-> ".py", test |-> FALSE, raises |-> FALSE, funcs |-> <<3>>,      mi |-> 8500, loc |-> 40]
PyNoFuncs == [ext |-> ".py", test |-> FALSE, raises |-> FALSE, funcs |-> <<>>,       mi |-> 9000, loc |-> 10]
PyComplex == [ext |-> ".py", test |-> FALSE, raises |-> FALSE, funcs |-> <<12, 12>>, mi |-> 4000, loc |-> 300]
PyRaises  == [ext |-> ".py", test |-> FALSE, raises |-> TRUE,  funcs |-> <<>>,       mi |-> 0,    loc |-> 0]
PyTest    == [ext |-> ".py", test |-> TRUE,  raises |-> FALSE, funcs |-> <<2>>,      mi |-> 9500, loc |-> 20]
JsVery    == [ext |-> ".js", test |-> FALSE, raises |-> FALSE, funcs |-> <<25, 17>>, mi |-> 0,    loc |-> 500]
GoNoFuncs == [ext |-> ".go", test |-> FALSE, raises |-> FALSE, funcs |-> <<>>,       mi |-> 0,    loc |-> 5]
TsSimple  == [ext |-> ".ts", test |-> FALSE, raises |-> FALSE, funcs |-> <<2>>,      mi |-> 0,    loc |-> 30]

FileKinds == {PySimple, PyNoFuncs, PyComplex, PyRaises, PyTest, JsVery, GoNoFuncs, TsSimple}

RECURSIVE SeqsUpTo(_, _)
SeqsUpTo(S, n) ==
    IF n = 0 THEN {<<>>}
    ELSE LET shorter == SeqsUpTo(S, n - 1)
         IN shorter \cup {Append(s, x) : s \in {t \in shorter : Len(t) = n - 1}, x \in S}

Repos == SeqsUpTo(FileKinds, MaxRepoFiles)

\* Optional[...] results: None
None == [none |-> TRUE]

\* Optional[...] values that are not None
Some(v) == [some |-> v]

COMPLEXITY_THRESHOLDS == [simple |-> 5, moderate |-> 10, complex |-> 15, very_complex |-> 20]

MAINTAINABILITY_THRESHOLDS == [excellent |-> 80, good |-> 65, moderate |-> 50, poor |-> 25]

source_extensions == <<".py", ".js", ".ts", ".java", ".cpp", ".c", ".go", ".rs", ".rb", ".php">>

\* FileQuality(...); file_path is the file's position in the tree.  The two
\* rank strings come from radon's cc_rank / mi_rank and are read by nothing
\* in the pipeline; they are left out.
FileQuality(path, loc, complexity, maintainability, functions_count) ==
    [file_path |-> path, loc |-> loc, complexity |-> complexity,
     maintainability |-> maintainability, functions_count |-> functions_count,
     average_function_complexity |-> complexity]

\* QualityMetrics(): the dataclass defaults
EmptyDict == [k \in {} |-> 0]

QualityMetrics ==
    [average_complexity |-> 0, median_complexity |-> 0, max_complexity |-> 0,
     average_maintainability |-> 0, median_maintainability |-> 0,
     min_maintainability |-> F(100),
     total_functions |-> 0, complex_functions |-> 0, very_complex_functions |-> 0,
     files_analyzed |-> 0, problematic_files |-> <<>>,
     quality_distribution |-> EmptyDict, file_metrics |-> <<>>]

\* analyze_python_file_radon: an exception gives None; a file without
\* functions still gives a FileQuality, with complexity 0
analyze_python_file_radon(path, f) ==
    IF f.raises THEN None
    ELSE LET complexities == [i \in 1..Len(f.funcs) |-> F(f.funcs[i])]
             avg_complexity == IF complexities # <<>> THEN mean(complexities) ELSE 0
         IN FileQuality(path, f.loc, avg_complexity, f.mi, Len(f.funcs))

\* analyze_file_lizard: None on an exception or an empty function_list
analyze_file_lizard(f) ==
    IF f.raises \/ f.funcs = <<>> THEN None
    ELSE LET complexities == [i \in 1..Len(f.funcs) |-> F(f.funcs[i])]
         IN [avg_complexity |-> mean(complexities),
             max_complexity |-> MaxSeq(complexities),
             functions_count |-> Len(f.funcs),
             nloc |-> f.loc]

\* A Lizard path that reports a maintainability index of 100
analyze_file_LizardMI(path, f) ==
    IF f.ext = ".py" THEN analyze_python_file_radon(path, f)
    ELSE LET lizard_result == analyze_file_lizard(f)
         IN IF lizard_result # None
            THEN FileQuality(path, lizard_result.nloc, lizard_result.avg_complexity,
                             F(100), lizard_result.functions_count)
            ELSE None

\* analyze_file: radon for .py, lizard otherwise (maintainability keeps the
\* dataclass default 0.0)
analyze_file(path, f) ==
    IF f.ext = ".py" THEN analyze_python_file_radon(path, f)
    ELSE LET lizard_result == analyze_file_lizard(f)
         IN IF lizard_result # None
            THEN FileQuality(path, lizard_result.nloc, lizard_result.avg_complexity,
                             0, lizard_result.functions_count)
            ELSE None

\* repo_path.rglob('*' + ext): the files with that suffix, in tree order
RECURSIVE rglobFrom(_, _, _)
rglobFrom(tree, ext, i) ==
    IF i > Len(tree) THEN <<>>
    ELSE (IF tree[i].ext = ext THEN <<i>> ELSE <<>>) \o rglobFrom(tree, ext, i + 1)

rglob(tree, ext) == rglobFrom(tree, ext, 1)

\* files_processed >= max_files (lines 227 and 231)
CapReachedOffByOne(processed, cap) == processed > cap

CapReached(processed, cap) == processed >= cap

\* 'test' in str(file_path).lower(): the path includes the repository root
IsTestPath(rootHasTest, f) == rootHasTest \/ f.test

Bucket(fm) ==
    IF fm.complexity <= F(COMPLEXITY_THRESHOLDS.simple) THEN "simple"
    ELSE IF fm.complexity <= F(COMPLEXITY_THRESHOLDS.moderate) THEN "moderate"
    ELSE IF fm.complexity <= F(COMPLEXITY_THRESHOLDS.complex) THEN "complex"
    ELSE "very_complex"

RECURSIVE CountBucket(_, _)
CountBucket(file_metrics, name) ==
    IF file_metrics = <<>> THEN 0
    ELSE (IF Bucket(Head(file_metrics)) = name THEN 1 ELSE 0)
         + CountBucket(Tail(file_metrics), name)

\* Independent tests instead of a ladder: a file above 15 lands in two buckets
_calculate_distribution_Overlap(file_metrics) ==
    [simple |-> CountBucket(file_metrics, "simple"),
     moderate |-> CountBucket(file_metrics, "moderate"),
     complex |-> CountBucket(file_metrics, "complex")
                 + CountBucket(file_metrics, "very_complex"),
     very_complex |-> CountBucket(file_metrics, "very_complex")]

\* _calculate_distribution: each file falls in the first bucket of the ladder
\* whose bound it does not exceed
_calculate_distribution(file_metrics) ==
    [simple |-> CountBucket(file_metrics, "simple"),
     moderate |-> CountBucket(file_metrics, "moderate"),
     complex |-> CountBucket(file_metrics, "complex"),
     very_complex |-> CountBucket(file_metrics, "very_complex")]

\* Lines 240-262: what one non-None file_quality does to metrics
RecordFile(m, fq) ==
    LET isComplex == fq.complexity > F(COMPLEXITY_THRESHOLDS.moderate)
        isVery == fq.complexity > F(COMPLEXITY_THRESHOLDS.very_complex)
        isProblematic == \/ fq.complexity > F(COMPLEXITY_THRESHOLDS.complex)
                         \/ fq.maintainability < F(MAINTAINABILITY_THRESHOLDS.moderate)
    IN [m EXCEPT
          !.file_metrics = Append(@, fq),
          !.total_functions = @ + fq.functions_count,
          !.complex_functions = IF isComplex THEN @ + 1 ELSE @,
          !.very_complex_functions = IF isVery THEN @ + 1 ELSE @,
          !.problematic_files = IF isProblematic THEN Append(@, fq.file_path) ELSE @]

\* Lines 264-278: the aggregates, computed once at the end
Aggregate(m, cplx, maint) ==
    LET m1 == IF cplx # <<>>
              THEN [m EXCEPT !.average_complexity = mean(cplx),
                             !.median_complexity = median(cplx),
                             !.max_complexity = MaxSeq(cplx)]
              ELSE m
        m2 == IF maint # <<>>
              THEN [m1 EXCEPT !.average_maintainability = mean(maint),
                              !.median_maintainability = median(maint),
                              !.min_maintainability = MinSeq(maint)]
              ELSE m1
    IN [m2 EXCEPT !.files_analyzed = Len(m.file_metrics),
                  !.quality_distribution = _calculate_distribution(m.file_metrics)]

-----------------------------------------------------------------------------
(* scorer/score.py *)

\* _get_default_config; the weights are in hundredths (0.30 is 30)
DefaultConfig ==
    [scoring |->
       [weights |-> [code_quality |-> 30, architecture |-> 25, maintainability |-> 20,
                     test_coverage |-> 15, ml_ai_readiness |-> 10],
        thresholds |->
          [complexity |-> [excellent |-> 5, good |-> 10, moderate |-> 15, poor |-> 20],
           maintainability |-> [excellent |-> 80, good |-> 65, moderate |-> 50, poor |-> 25]],
        ml_ai_indicators |->
          [frameworks |-> <<"tensorflow", "pytorch", "scikit-learn", "keras", "numpy", "pandas">>]]]

\* The configuration file as _load_config meets it: open() fails (missing
\* or unreadable), yaml.safe_load raises, or the file parses to a value
FileMissing == [file |-> "missing"]
FileUnreadable == [file |-> "unreadable"]
FileUnparsable == [file |-> "unparsable"]
Parsed(value) == [file |-> "parsed", value |-> value]

\* Without the except branch: a failure leaves no configuration
_load_config_NoFallback(file) ==
    IF file.file = "parsed" THEN file.value ELSE None

\* _load_config: any exception of open or yaml.safe_load gives the defaults
_load_config(file) ==
    IF file.file = "parsed" THEN file.value ELSE DefaultConfig

\* A fixed floor of 20 above the poor threshold
ComplexityScore_Floor(complexity, thresholds) ==
    IF complexity <= F(thresholds.excellent) THEN F(100)
    ELSE IF complexity <= F(thresholds.good) THEN F(85)
    ELSE IF complexity <= F(thresholds.moderate) THEN F(70)
    ELSE IF complexity <= F(thresholds.poor) THEN F(50)
    ELSE F(20)

\* The base score of calculate_code_quality_score (lines 136-148)
ComplexityScore(complexity, thresholds) ==
    IF complexity <= F(thresholds.excellent) THEN F(100)
    ELSE IF complexity <= F(thresholds.good) THEN F(85)
    ELSE IF complexity <= F(thresholds.moderate) THEN F(70)
    ELSE IF complexity <= F(thresholds.poor) THEN F(50)
    ELSE Max2(F(20), F(100) - complexity * 2)

\* The penalty of calculate_code_quality_score (line 151)
ComplexityPenalty(quality) ==
    Min2(F(30), F(quality.very_complex_functions * 5))

\* The same without the files_analyzed == 0 special case
calculate_code_quality_score_NoGuard(cfg, quality) ==
    LET complexity_score ==
            ComplexityScore(quality.average_complexity,
                            cfg.scoring.thresholds.complexity)
        complexity_penalty == ComplexityPenalty(quality)
        final_score == Max2(0, complexity_score - complexity_penalty)
    IN Round2(final_score * 100)

calculate_code_quality_score(cfg, quality) ==
    IF quality.files_analyzed = 0 THEN F(50)
    ELSE LET complexity_score ==
                 ComplexityScore(quality.average_complexity,
                                 cfg.scoring.thresholds.complexity)
             complexity_penalty == ComplexityPenalty(quality)
             final_score == Max2(0, complexity_score - complexity_penalty)
         IN Round2(final_score * 100)

\* Text that the code searches (folder paths, extension keys) is a sequence
\* of characters, so that Python's substring test `a in b` is computed.
Contains(sub, str) ==
    \E i \in 1..(Len(str) - Len(sub) + 1) : SubSeq(str, i, i + Len(sub) - 1) = sub

UpperCase == <<"A", "B", "C", "D", "E", "F", "G", "H", "I", "J", "K", "L", "M",
               "N", "O", "P", "Q", "R", "S", "T", "U", "V", "W", "X", "Y", "Z">>

LowerCase == <<"a", "b", "c", "d", "e", "f", "g", "h", "i", "j", "k", "l", "m",
               "n", "o", "p", "q", "r", "s", "t", "u", "v", "w", "x", "y", "z">>

\* str.lower()
lower(str) ==
    [i \in 1..Len(str) |->
        IF \E k \in 1..Len(UpperCase) : UpperCase[k] = str[i]
        THEN LowerCase[CHOOSE k \in 1..Len(UpperCase) : UpperCase[k] = str[i]]
        ELSE str[i]]

RECURSIVE SumOver(_, _)
SumOver(f, D) ==
    IF D = {} THEN 0
    ELSE LET d == CHOOSE x \in D : TRUE IN f[d] + SumOver(f, D \ {d})

Ext_py == <<".", "p", "y">>

Str_test == <<"t", "e", "s", "t">>
Ext_test_py == <<".", "t", "e", "s", "t", ".", "p", "y">>
Ext_spec_js == <<".", "s", "p", "e", "c", ".", "j", "s">>
Ext_csv == <<".", "c", "s", "v">>
Ext_json == <<".", "j", "s", "o", "n">>
Ext_pkl == <<".", "p", "k", "l">>
Ext_h5 == <<".", "h", "5">>
Ext_npy == <<".", "n", "p", "y">>
Ext_ipynb == <<".", "i", "p", "y", "n", "b">>

\* ml_folders (line 299)
ml_folders == << <<"m", "o", "d", "e", "l">>, <<"m", "o", "d", "e", "l", "s">>,
                 <<"d", "a", "t", "a">>, <<"d", "a", "t", "a", "s", "e", "t">>,
                 <<"t", "r", "a", "i", "n">>,
                 <<"i", "n", "f", "e", "r", "e", "n", "c", "e">> >>

\* data_extensions (line 307)
data_extensions == <<Ext_csv, Ext_json, Ext_pkl, Ext_h5, Ext_npy>>

\* min(100, max(0, score)) on hundredths
Clamp100(score) == Min2(F(100), Max2(0, score))

calculate_architecture_score(stats) ==
    LET s0 == F(50)
        s1 == IF DOMAIN stats.folders_by_type # {} THEN s0 + F(10) ELSE s0
        s2 == IF stats.has_config THEN s1 + F(10) ELSE s1
        s3 == IF stats.has_requirements THEN s2 + F(10) ELSE s2
        s4 == IF stats.has_ci_cd THEN s3 + F(10) ELSE s3
        s5 == IF stats.has_dockerfile THEN s4 + F(5) ELSE s4
        s6 == IF stats.average_file_size < F(300) THEN s5 + F(5)
              ELSE IF stats.average_file_size > F(1000) THEN s5 - F(10)
              ELSE s5
    IN Round2(Clamp100(s6) * 100)

\* The unclamped maintainability score, in ten-thousandths (lines 214-236)
MaintainabilityRaw(quality, stats) ==
    LET s0 == IF quality.average_maintainability > 0
              THEN quality.average_maintainability * 70
              ELSE F(40) * 100
        s1 == IF stats.has_docs THEN s0 + F(15) * 100 ELSE s0
        s2 == IF stats.largest_file_lines < 500 THEN s1 + F(10) * 100
              ELSE IF stats.largest_file_lines > 2000 THEN s1 - F(15) * 100
              ELSE s1
        \* problematic_ratio > 0.3
        s3 == IF /\ quality.files_analyzed > 0
                 /\ Len(quality.problematic_files) * 10
                      > 3 * quality.files_analyzed
              THEN s2 - F(20) * 100
              ELSE s2
    IN s3

\* The same without min(100, max(0, score))
calculate_maintainability_score_NoClamp(quality, stats) ==
    Round2(MaintainabilityRaw(quality, stats))

calculate_maintainability_score(quality, stats) ==
    Round2(Min2(F(100) * 100, Max2(0, MaintainabilityRaw(quality, stats))))

calculate_test_coverage_score(stats) ==
    IF ~stats.has_tests THEN 0
    ELSE LET test_files ==
                 Cardinality({ext \in DOMAIN stats.files_by_extension :
                                 \/ Contains(Str_test, ext)
                                 \/ ext \in {Ext_test_py, Ext_spec_js}})
             score == IF stats.total_files > 0
                      THEN (IF test_files * 10 >= 3 * stats.total_files THEN F(90)
                            ELSE IF test_files * 10 >= 2 * stats.total_files THEN F(75)
                            ELSE IF test_files * 10 >= stats.total_files THEN F(60)
                            ELSE F(40))
                      ELSE F(40)
         IN Round2(score * 100)

\* any(ml_folder in folder.lower() for ml_folder in ml_folders)
IsMlFolder(folder) ==
    \E k \in 1..Len(ml_folders) : Contains(ml_folders[k], lower(folder))

calculate_ml_ai_readiness_score(cfg, stats) ==
    LET ml_indicators == cfg.scoring.ml_ai_indicators.frameworks
        s1 == IF "Python" \in stats.languages THEN F(20) ELSE 0
        s2 == IF stats.has_requirements THEN s1 + F(20) ELSE s1
        \* one +15 for each folder list holding a match (the break leaves the
        \* inner loop only)
        matching == {t \in DOMAIN stats.folders_by_type :
                        \E k \in 1..Len(stats.folders_by_type[t]) :
                            IsMlFolder(stats.folders_by_type[t][k])}
        s3 == s2 + F(15) * Cardinality(matching)
        has_data == \E k \in 1..Len(data_extensions) :
                        data_extensions[k] \in DOMAIN stats.files_by_extension
        s4 == IF has_data THEN s3 + F(15) ELSE s3
        s5 == IF Ext_ipynb \in DOMAIN stats.files_by_extension
              THEN s4 + F(10) ELSE s4
    IN Round2(Min2(F(100), s5) * 100)

\* Strict comparisons at the boundaries
_calculate_grade_Strict(score) ==
    IF score > F(90) THEN "A"
    ELSE IF score > F(80) THEN "B"
    ELSE IF score > F(70) THEN "C"
    ELSE IF score > F(60) THEN "D"
    ELSE "F"

\* _calculate_grade
_calculate_grade(score) ==
    IF score >= F(90) THEN "A"
    ELSE IF score >= F(80) THEN "B"
    ELSE IF score >= F(70) THEN "C"
    ELSE IF score >= F(60) THEN "D"
    ELSE "F"

\* One term subtracted instead of added
WeightedSum_Sub(weights, cq, ar, mt, tc, ml) ==
    cq * weights.code_quality
    + ar * weights.architecture
    + mt * weights.maintainability
    - tc * weights.test_coverage
    + ml * weights.ml_ai_readiness

\* The weighted sum of lines 359-365, in ten-thousandths
WeightedSum(weights, cq, ar, mt, tc, ml) ==
    cq * weights.code_quality
    + ar * weights.architecture
    + mt * weights.maintainability
    + tc * weights.test_coverage
    + ml * weights.ml_ai_readiness

\* EvaluationScores(): the dataclass defaults
EvaluationScores ==
    [code_quality_score |-> 0, architecture_score |-> 0, maintainability_score |-> 0,
     test_coverage_score |-> 0, ml_ai_readiness_score |-> 0,
     overall_score |-> 0, grade |-> "F",
     complexity_score |-> 0, documentation_score |-> 0, structure_score |-> 0]

\* The subscripts that calculate_scores applies to self.config fail:
\* line 289 reads ['scoring']['ml_ai_indicators']['frameworks'] (KeyError),
\* and no configuration at all cannot be subscripted (TypeError)
ConfigLookupRaises(cfg) ==
    IF cfg = None THEN TRUE
    ELSE IF "ml_ai_indicators" \notin DOMAIN cfg.scoring THEN TRUE
    ELSE "frameworks" \notin DOMAIN cfg.scoring.ml_ai_indicators

\* Documentation that is found but graded as weak: 60 in place of 100
calculate_scores_GradedDocs(cfg, stats, quality) ==
    LET cq == calculate_code_quality_score(cfg, quality)
        ar == calculate_architecture_score(stats)
        mt == calculate_maintainability_score(quality, stats)
        tc == calculate_test_coverage_score(stats)
        ml == calculate_ml_ai_readiness_score(cfg, stats)
        overall == Round2(WeightedSum(cfg.scoring.weights, cq, ar, mt, tc, ml))
    IN [code_quality_score |-> cq, architecture_score |-> ar,
        maintainability_score |-> mt, test_coverage_score |-> tc,
        ml_ai_readiness_score |-> ml,
        overall_score |-> overall,
        grade |-> _calculate_grade(overall),
        complexity_score |-> cq,
        documentation_score |-> IF stats.has_docs THEN F(60) ELSE F(30),
        structure_score |-> ar]

\* calculate_scores (lines 340-371): the five scores, the weighted overall
\* score and grade, and the sub-scores; documentation is 100 or 30
calculate_scores(cfg, stats, quality) ==
    LET cq == calculate_code_quality_score(cfg, quality)
        ar == calculate_architecture_score(stats)
        mt == calculate_maintainability_score(quality, stats)
        tc == calculate_test_coverage_score(stats)
        ml == calculate_ml_ai_readiness_score(cfg, stats)
        overall == Round2(WeightedSum(cfg.scoring.weights, cq, ar, mt, tc, ml))
    IN [code_quality_score |-> cq, architecture_score |-> ar,
        maintainability_score |-> mt, test_coverage_score |-> tc,
        ml_ai_readiness_score |-> ml,
        overall_score |-> overall,
        grade |-> _calculate_grade(overall),
        complexity_score |-> cq,
        documentation_score |-> IF stats.has_docs THEN F(100) ELSE F(30),
        structure_score |-> ar]

-----------------------------------------------------------------------------
(* recommender/suggest.py *)

\* Recommendation(...): title, priority and category.  The description,
\* impact, effort and action steps are fixed texts of the rule (some with a
\* number of the inputs formatted in) and are determined by the title.
Recommendation(title, priority, category) ==
    [title |-> title, priority |-> priority, category |-> category]

\* A rule: its recommendation when the condition holds, nothing otherwise
Rule(cond, rec) == IF cond THEN <<rec>> ELSE <<>>

\* Two independent tests of average_complexity instead of if / elif
_generate_code_quality_recommendations_NoElif(quality, sc) ==
    Rule(quality.average_complexity > F(15),
         Recommendation("Reduce Code Complexity", "Critical", "Code Quality"))
    \o Rule(quality.average_complexity > F(10),
            Recommendation("Optimize Complex Functions", "High", "Code Quality"))
    \o Rule(Len(quality.problematic_files) > 5,
            Recommendation("Address Problematic Files", "High", "Code Quality"))
    \o Rule(sc.maintainability_score < F(50),
            Recommendation("Improve Code Maintainability", "Critical", "Maintainability"))

_generate_code_quality_recommendations(quality, sc) ==
    (IF quality.average_complexity > F(15)
     THEN <<Recommendation("Reduce Code Complexity", "Critical", "Code Quality")>>
     ELSE IF quality.average_complexity > F(10)
     THEN <<Recommendation("Optimize Complex Functions", "High", "Code Quality")>>
     ELSE <<>>)
    \o Rule(Len(quality.problematic_files) > 5,
            Recommendation("Address Problematic Files", "High", "Code Quality"))
    \o Rule(sc.maintainability_score < F(50),
            Recommendation("Improve Code Maintainability", "Critical", "Maintainability"))

_generate_architecture_recommendations(stats, sc) ==
    Rule(~stats.has_config,
         Recommendation("Add Configuration Management", "Medium", "Architecture"))
    \o Rule(~stats.has_dockerfile,
            Recommendation("Containerize Application", "Medium", "Architecture"))
    \o Rule(~stats.has_ci_cd,
            Recommendation("Set Up CI/CD Pipeline", "High", "Architecture"))
    \o Rule(stats.average_file_size > F(500),
            Recommendation("Refactor Large Files", "Medium", "Architecture"))

_generate_maintainability_recommendations(stats, quality, sc) ==
    Rule(stats.largest_file_lines > 1000,
         Recommendation("Break Down Large Files", "High", "Maintainability"))

_generate_testing_recommendations(stats, sc) ==
    IF ~stats.has_tests
    THEN <<Recommendation("Add Unit Tests", "Critical", "Testing")>>
    ELSE IF sc.test_coverage_score < F(60)
    THEN <<Recommendation("Improve Test Coverage", "High", "Testing")>>
    ELSE <<>>

_generate_ml_ai_recommendations(stats, sc) ==
    Rule(sc.ml_ai_readiness_score < F(50) /\ "Python" \in stats.languages,
         Recommendation("Enhance ML/AI Capabilities", "Low", "ML/AI"))

_generate_documentation_recommendations(stats, sc) ==
    IF ~stats.has_docs
    THEN <<Recommendation("Add Project Documentation", "High", "Documentation")>>
    ELSE IF sc.documentation_score < F(70)
    THEN <<Recommendation("Enhance Documentation", "Medium", "Documentation")>>
    ELSE <<>>

\* priority_order (lines 112-117)
priority_order == [Critical |-> 0, High |-> 1, Medium |-> 2, Low |-> 3]

PriorityRank(r) == priority_order[r.priority]

\* Inserting in front of the equal-ranked elements: an unstable sort
RECURSIVE InsertByPriority_Unstable(_, _)
InsertByPriority_Unstable(r, sortedRecs) ==
    IF sortedRecs = <<>> THEN <<r>>
    ELSE IF PriorityRank(Head(sortedRecs)) >= PriorityRank(r) THEN <<r>> \o sortedRecs
    ELSE <<Head(sortedRecs)>> \o InsertByPriority_Unstable(r, Tail(sortedRecs))

\* list.sort(key=...) is stable: an element goes behind every element whose
\* key is not larger
RECURSIVE InsertByPriority(_, _)
InsertByPriority(r, sortedRecs) ==
    IF sortedRecs = <<>> THEN <<r>>
    ELSE IF PriorityRank(Head(sortedRecs)) > PriorityRank(r) THEN <<r>> \o sortedRecs
    ELSE <<Head(sortedRecs)>> \o InsertByPriority(r, Tail(sortedRecs))

\* No sort at all
SortByPriority_None(recs) == recs

RECURSIVE SortByPriorityFrom(_, _)
SortByPriorityFrom(done, rest) ==
    IF rest = <<>> THEN done
    ELSE SortByPriorityFrom(InsertByPriority(Head(rest), done), Tail(rest))

SortByPriority(recs) == SortByPriorityFrom(<<>>, recs)

\* Lines 77-109: the six groups, appended in this order
CollectRecommendations(stats, quality, sc) ==
    _generate_code_quality_recommendations(quality, sc)
    \o _generate_architecture_recommendations(stats, sc)
    \o _generate_maintainability_recommendations(stats, quality, sc)
    \o _generate_testing_recommendations(stats, sc)
    \o _generate_ml_ai_recommendations(stats, sc)
    \o _generate_documentation_recommendations(stats, sc)

generate_recommendations(stats, quality, sc) ==
    SortByPriority(CollectRecommendations(stats, quality, sc))

-----------------------------------------------------------------------------
(* scanner/stats.py *)

\* Names, patterns and paths are sequences of characters; a path is the
\* sequence of its component names below repo_path.

StartsWith(str, prefix) ==
    Len(str) >= Len(prefix) /\ SubSeq(str, 1, Len(prefix)) = prefix

EndsWith(str, suffix) ==
    Len(str) >= Len(suffix) /\ SubSeq(str, Len(str) - Len(suffix) + 1, Len(str)) = suffix

\* PurePath.suffix: from the last dot on, unless that dot is the first or
\* the last character of the name
Suffix(name) ==
    LET dots == {i \in 1..Len(name) : name[i] = "."}
    IN IF dots = {} THEN <<>>
       ELSE LET i == CHOOSE d \in dots : \A e \in dots : e <= d
            IN IF i > 1 /\ i < Len(name) THEN SubSeq(name, i, Len(name)) ELSE <<>>

\* str(path): the components joined by "/"
RECURSIVE PathStr(_)
PathStr(path) ==
    IF path = <<>> THEN <<>>
    ELSE IF Len(path) = 1 THEN path[1]
    ELSE path[1] \o <<"/">> \o PathStr(Tail(path))

\* default_ignores (lines 109-125)
default_ignores ==
    << <<"_", "_", "p", "y", "c", "a", "c", "h", "e", "_", "_">>,
       <<"*", ".", "p", "y", "c">>,
       <<".", "g", "i", "t">>,
       <<".", "v", "e", "n", "v">>,
       <<"v", "e", "n", "v">>,
       <<"e", "n", "v">>,
       <<"n", "o", "d", "e", "_", "m", "o", "d", "u", "l", "e", "s">>,
       <<".", "p", "y", "t", "e", "s", "t", "_", "c", "a", "c", "h", "e">>,
       <<".", "m", "y", "p", "y", "_", "c", "a", "c", "h", "e">>,
       <<"*", ".", "e", "g", "g", "-", "i", "n", "f", "o">>,
       <<"d", "i", "s", "t">>,
       <<"b", "u", "i", "l", "d">>,
       <<".", "D", "S", "_", "S", "t", "o", "r", "e">>,
       <<"*", ".", "m", "i", "n", ".", "j", "s">>,
       <<"*", ".", "m", "i", "n", ".", "c", "s", "s">> >>

Name_node_modules == <<"n", "o", "d", "e", "_", "m", "o", "d", "u", "l", "e", "s">>

\* One gitwildmatch pattern without "/" against one path component: the
\* patterns in use are literal names or "*" followed by a literal tail
GlobMatch(pattern, name) ==
    IF pattern # <<>> /\ pattern[1] = "*" THEN EndsWith(name, Tail(pattern))
    ELSE name = pattern

\* PathSpec.match_file for such patterns: the pattern matches the entry of
\* that name at any depth and everything beneath it
MatchFile(patterns, path) ==
    \E k \in 1..Len(patterns) : \E i \in 1..Len(path) : GlobMatch(patterns[k], path[i])

\* patterns = ignore_patterns or default_ignores (None and [] are falsy)
SpecPatterns(given) ==
    IF given = None THEN default_ignores
    ELSE IF given.some = <<>> THEN default_ignores ELSE given.some

\* A pruning that looks at the top level only
should_ignore_TopLevel(given, path) ==
    Len(path) = 1 /\ MatchFile(SpecPatterns(given), path)

\* should_ignore(path, base_path), path given relative to base_path
should_ignore(given, path) == MatchFile(SpecPatterns(given), path)

\* A line of a file, by the tests count_lines makes on it:
\*   blank    line.strip() is empty
\*   marker   stripped starts with one of the six comment markers
\*   opener   stripped contains a triple quote or "/*"
Line(blank, marker, opener) == [blank |-> blank, marker |-> marker, opener |-> opener]

PlainLine == Line(FALSE, FALSE, FALSE)
BlankLine == Line(TRUE, FALSE, FALSE)
MarkerLine == Line(FALSE, TRUE, FALSE)
OpenerLine == Line(FALSE, FALSE, TRUE)

\* Lines that hold '*/': "end */" is tested like a plain line and " */"
\* starts with '*'; count_lines never looks for '*/'
CloserLine == [blank |-> FALSE, marker |-> FALSE, opener |-> FALSE, closer |-> TRUE]
StarCloserLine == [blank |-> FALSE, marker |-> TRUE, opener |-> FALSE, closer |-> TRUE]

\* The comment loop of count_lines (lines 165-183): st = <<comment, in_multiline>>
RECURSIVE CommentLoop(_, _)
CommentLoop(lines, st) ==
    IF lines = <<>> THEN st
    ELSE LET l == Head(lines)
             next == IF l.marker THEN <<st[1] + 1, st[2]>>
                     ELSE IF l.opener THEN <<st[1] + 1, ~st[2]>>
                     ELSE IF st[2] THEN <<st[1] + 1, st[2]>>
                     ELSE st
         IN CommentLoop(Tail(lines), next)

RECURSIVE CountBlank(_)
CountBlank(lines) ==
    IF lines = <<>> THEN 0
    ELSE (IF Head(lines).blank THEN 1 ELSE 0) + CountBlank(Tail(lines))

\* code = total - blank - comment, without max(0, code)
count_lines_NoClamp(file) ==
    IF ~file.readable THEN [total |-> 0, code |-> 0, blank |-> 0, comment |-> 0]
    ELSE LET total == Len(file.lines)
             blank == CountBlank(file.lines)
             comment == CommentLoop(file.lines, <<0, FALSE>>)[1]
             code == total - blank - comment
         IN [total |-> total, code |-> code, blank |-> blank, comment |-> comment]

\* count_lines: a read error gives four zeros
count_lines(file) ==
    IF ~file.readable THEN [total |-> 0, code |-> 0, blank |-> 0, comment |-> 0]
    ELSE LET total == Len(file.lines)
             blank == CountBlank(file.lines)
             comment == CommentLoop(file.lines, <<0, FALSE>>)[1]
             code == total - blank - comment
         IN [total |-> total, code |-> Max2(0, code), blank |-> blank, comment |-> comment]

\* LANGUAGE_MAP
LANGUAGE_MAP ==
    (<<".", "p", "y">> :> "Python")
    @@ (<<".", "j", "s">> :> "JavaScript")
    @@ (<<".", "t", "s">> :> "TypeScript")
    @@ (<<".", "j", "a", "v", "a">> :> "Java")
    @@ (<<".", "c", "p", "p">> :> "C++")
    @@ (<<".", "c">> :> "C")
    @@ (<<".", "c", "s">> :> "C#")
    @@ (<<".", "g", "o">> :> "Go")
    @@ (<<".", "r", "s">> :> "Rust")
    @@ (<<".", "r", "b">> :> "Ruby")
    @@ (<<".", "p", "h", "p">> :> "PHP")
    @@ (<<".", "s", "w", "i", "f", "t">> :> "Swift")
    @@ (<<".", "k", "t">> :> "Kotlin")
    @@ (<<".", "s", "c", "a", "l", "a">> :> "Scala")
    @@ (<<".", "r">> :> "R")
    @@ (<<".", "m">> :> "MATLAB")
    @@ (<<".", "s", "h">> :> "Shell")
    @@ (<<".", "s", "q", "l">> :> "SQL")
    @@ (<<".", "h", "t", "m", "l">> :> "HTML")
    @@ (<<".", "c", "s", "s">> :> "CSS")
    @@ (<<".", "j", "s", "x">> :> "React")
    @@ (<<".", "t", "s", "x">> :> "React TypeScript")
    @@ (<<".", "v", "u", "e">> :> "Vue")

\* ProjectStats(): the dataclass defaults
ProjectStats ==
    [total_files |-> 0, total_lines |-> 0, total_code_lines |-> 0,
     total_blank_lines |-> 0, total_comment_lines |-> 0,
     files_by_extension |-> EmptyDict, lines_by_extension |-> EmptyDict,
     languages |-> {},
     has_tests |-> FALSE, has_docs |-> FALSE, has_config |-> FALSE,
     has_requirements |-> FALSE, has_dockerfile |-> FALSE, has_ci_cd |-> FALSE,
     folders_by_type |-> EmptyDict,
     average_file_size |-> 0, largest_file |-> None, largest_file_lines |-> 0]

\* dict.get(key, 0) + n, stored back
DictAdd(d, key, n) ==
    [k \in DOMAIN d \cup {key} |-> (IF k \in DOMAIN d THEN d[k] ELSE 0) + (IF k = key THEN n ELSE 0)]

\* Entries of the tree
DirEntry(path) == [path |-> path, kind |-> "dir"]

FileEntry(path, lines, readable) ==
    [path |-> path, kind |-> "file", lines |-> lines, readable |-> readable]

ParentOf(path) == SubSeq(path, 1, Len(path) - 1)

NameOf(path) == path[Len(path)]

\* The children of directory dir of the given kind, in listing order
RECURSIVE ChildrenFrom(_, _, _, _)
ChildrenFrom(tree, dir, kind, i) ==
    IF i > Len(tree) THEN <<>>
    ELSE (IF tree[i].kind = kind /\ ParentOf(tree[i].path) = dir THEN <<tree[i]>> ELSE <<>>)
         \o ChildrenFrom(tree, dir, kind, i + 1)

Children(tree, dir, kind) == ChildrenFrom(tree, dir, kind, 1)

\* Lines 282: dirs[:] = [d for d in dirs if not should_ignore(root / d)]
RECURSIVE KeptDirs(_, _)
KeptDirs(given, dirs) ==
    IF dirs = <<>> THEN <<>>
    ELSE (IF should_ignore(given, Head(dirs).path) THEN <<>> ELSE <<Head(dirs).path>>)
         \o KeptDirs(given, Tail(dirs))

\* Lines 284-319 for one file; st = [stats, max_lines, largest_file, read]
ScanFile(given, st, file) ==
    IF should_ignore(given, file.path) THEN st
    ELSE LET ext == lower(Suffix(NameOf(file.path)))
             line_counts == count_lines(file)
             st0 == st.stats
             st1 == [st0 EXCEPT
                       !.total_files = @ + 1,
                       !.total_lines = @ + line_counts.total,
                       !.total_code_lines = @ + line_counts.code,
                       !.total_blank_lines = @ + line_counts.blank,
                       !.total_comment_lines = @ + line_counts.comment,
                       !.files_by_extension = DictAdd(@, ext, 1),
                       !.lines_by_extension = DictAdd(@, ext, line_counts.total),
                       !.languages = IF ext \in DOMAIN LANGUAGE_MAP
                                     THEN @ \cup {LANGUAGE_MAP[ext]} ELSE @]
             bigger == line_counts.total > st.max_lines
         IN [stats |-> st1,
             max_lines |-> IF bigger THEN line_counts.total ELSE st.max_lines,
             largest_file |-> IF bigger THEN Some(PathStr(file.path)) ELSE st.largest_file,
             read |-> Append(st.read, file.path)]

RECURSIVE ScanFiles(_, _, _)
ScanFiles(given, st, files) ==
    IF files = <<>> THEN st
    ELSE ScanFiles(given, ScanFile(given, st, Head(files)), Tail(files))

\* The lists of detect_project_features
test_indicators == << <<"t", "e", "s", "t">>,
                    <<"t", "e", "s", "t", "s">>,
                    <<"s", "p", "e", "c">>,
                    <<"_", "_", "t", "e", "s", "t", "s", "_", "_">> >>

test_file_prefix == <<"t", "e", "s", "t", "_">>

test_file_suffixes == << <<"_", "t", "e", "s", "t", ".", "p", "y">>,
                         <<".", "t", "e", "s", "t", ".", "j", "s">>,
                         <<".", "s", "p", "e", "c", ".", "j", "s">> >>

doc_indicators == << <<"r", "e", "a", "d", "m", "e", ".", "m", "d">>,
                   <<"r", "e", "a", "d", "m", "e", ".", "r", "s", "t">>,
                   <<"d", "o", "c", "s">>,
                   <<"d", "o", "c", "u", "m", "e", "n", "t", "a", "t", "i", "o", "n">> >>

config_files ==
    << <<"c", "o", "n", "f", "i", "g", ".", "y", "a", "m", "l">>,
       <<"c", "o", "n", "f", "i", "g", ".", "y", "m", "l">>,
       <<"c", "o", "n", "f", "i", "g", ".", "j", "s", "o", "n">>,
       <<"s", "e", "t", "u", "p", ".", "p", "y">>,
       <<"p", "y", "p", "r", "o", "j", "e", "c", "t", ".", "t", "o", "m", "l">>,
       <<"p", "a", "c", "k", "a", "g", "e", ".", "j", "s", "o", "n">> >>

req_files ==
    << <<"r", "e", "q", "u", "i", "r", "e", "m", "e", "n", "t", "s", ".", "t", "x", "t">>,
       <<"r", "e", "q", "u", "i", "r", "e", "m", "e", "n", "t", "s", ".", "i", "n">>,
       <<"P", "i", "p", "f", "i", "l", "e">>,
       <<"e", "n", "v", "i", "r", "o", "n", "m", "e", "n", "t", ".", "y", "m", "l">>,
       <<"p", "a", "c", "k", "a", "g", "e", ".", "j", "s", "o", "n">> >>

docker_files == << <<"D", "o", "c", "k", "e", "r", "f", "i", "l", "e">>,
                 <<"d", "o", "c", "k", "e", "r", "-", "c", "o", "m", "p", "o", "s", "e", ".", "y", "m", "l">> >>

ci_indicators ==
    << << <<".", "g", "i", "t", "h", "u", "b">>, <<"w", "o", "r", "k", "f", "l", "o", "w", "s">> >>,
       << <<".", "g", "i", "t", "l", "a", "b", "-", "c", "i", ".", "y", "m", "l">> >>,
       << <<".", "t", "r", "a", "v", "i", "s", ".", "y", "m", "l">> >>,
       << <<"J", "e", "n", "k", "i", "n", "s", "f", "i", "l", "e">> >>,
       << <<".", "c", "i", "r", "c", "l", "e", "c", "i">> >> >>

\* (repo_path / rel).exists()
Exists(tree, rel) == \E i \in 1..Len(tree) : tree[i].path = rel

\* list(repo_path.rglob(name)) is non-empty, for a literal name
RglobName(tree, name) == \E i \in 1..Len(tree) : NameOf(tree[i].path) = name

\* The directories whose lower-cased name contains a test indicator, in
\* rglob('*') order, as str(item.relative_to(repo_path))
RECURSIVE TestFolders(_, _)
TestFolders(tree, i) ==
    IF i > Len(tree) THEN <<>>
    ELSE (IF /\ tree[i].kind = "dir"
             /\ \E k \in 1..Len(test_indicators) :
                   Contains(test_indicators[k], lower(NameOf(tree[i].path)))
          THEN <<PathStr(tree[i].path)>> ELSE <<>>)
         \o TestFolders(tree, i + 1)

\* rglob of 'test_*.py', '*_test.py', '*.test.js', '*.spec.js' finds something
HasTestFile(tree) ==
    \E i \in 1..Len(tree) :
        LET name == NameOf(tree[i].path)
        IN \/ /\ StartsWith(name, test_file_prefix)
              /\ EndsWith(name, Ext_py)
              /\ Len(name) >= Len(test_file_prefix) + Len(Ext_py)
           \/ \E k \in 1..Len(test_file_suffixes) : EndsWith(name, test_file_suffixes[k])

\* detect_project_features: rglob is not filtered by the ignore patterns
detect_project_features(tree, stats) ==
    LET folders == TestFolders(tree, 1)
    IN [stats EXCEPT
          !.has_tests = folders # <<>> \/ HasTestFile(tree),
          !.folders_by_type = IF folders # <<>> THEN [tests |-> folders] ELSE @,
          !.has_docs = \E k \in 1..Len(doc_indicators) : RglobName(tree, doc_indicators[k]),
          !.has_config = \E k \in 1..Len(config_files) : Exists(tree, <<config_files[k]>>),
          !.has_requirements = \E k \in 1..Len(req_files) : Exists(tree, <<req_files[k]>>),
          !.has_dockerfile = \E k \in 1..Len(docker_files) : Exists(tree, <<docker_files[k]>>),
          !.has_ci_cd = \E k \in 1..Len(ci_indicators) : Exists(tree, ci_indicators[k])]

\* Lines 321-329: derived statistics and feature detection
FinishScan(tree, st) ==
    LET s1 == IF st.stats.total_files > 0
              THEN [st.stats EXCEPT
                      !.average_file_size = (st.stats.total_lines * 100) \div st.stats.total_files]
              ELSE st.stats
        s2 == [s1 EXCEPT !.largest_file = st.largest_file,
                         !.largest_file_lines = st.max_lines]
    IN detect_project_features(tree, s2)

\* One iteration of `for root, dirs, files in os.walk(repo_path)`
WalkStep(given, tree, dir, st) ==
    ScanFiles(given, st, Children(tree, dir, "file"))

\* scan as a function of the tree: todo is the stack of directories to yield
RECURSIVE ScanWalk(_, _, _, _)
ScanWalk(given, tree, todo, st) ==
    IF todo = <<>> THEN st
    ELSE ScanWalk(given, tree,
                  KeptDirs(given, Children(tree, Head(todo), "dir")) \o Tail(todo),
                  WalkStep(given, tree, Head(todo), st))

ScanStart == [stats |-> ProjectStats, max_lines |-> 0, largest_file |-> None, read |-> <<>>]

scan(given, tree) == FinishScan(tree, ScanWalk(given, tree, << <<>> >>, ScanStart))

-----------------------------------------------------------------------------
(* scan as a state machine: one step per directory that os.walk yields *)

Lines2 == <<PlainLine, BlankLine>>
Lines3 == <<PlainLine, PlainLine, PlainLine>>
Lines5 == <<MarkerLine, PlainLine, OpenerLine, BlankLine, PlainLine>>
Lines8 == <<PlainLine, PlainLine, MarkerLine, PlainLine, PlainLine, PlainLine, BlankLine, PlainLine>>

\* The entries a tree may hold, in listing order
TreeUniverse ==
    << FileEntry(<< <<"a", ".", "p", "y">> >>, Lines2, TRUE),
       FileEntry(<< <<"a", ".", "p", "y">> >>, Lines2, FALSE),
       DirEntry(<< <<"n", "o", "d", "e", "_", "m", "o", "d", "u", "l", "e", "s">> >>),
       FileEntry(<< <<"n", "o", "d", "e", "_", "m", "o", "d", "u", "l", "e", "s">>, <<"x", ".", "j", "s">> >>, Lines3, TRUE),
       DirEntry(<< <<"n", "o", "d", "e", "_", "m", "o", "d", "u", "l", "e", "s">>, <<"t", "e", "s", "t", "s">> >>),
       DirEntry(<< <<"s", "r", "c">> >>),
       FileEntry(<< <<"s", "r", "c">>, <<"b", ".", "p", "y">> >>, Lines5, TRUE),
       FileEntry(<< <<"s", "r", "c">>, <<"c", ".", "p", "y", "c">> >>, Lines2, TRUE),
       DirEntry(<< <<"s", "r", "c">>, <<"n", "o", "d", "e", "_", "m", "o", "d", "u", "l", "e", "s">> >>),
       FileEntry(<< <<"s", "r", "c">>, <<"n", "o", "d", "e", "_", "m", "o", "d", "u", "l", "e", "s">>, <<"y", ".", "p", "y">> >>, Lines8, TRUE),
       DirEntry(<< <<"s", "r", "c">>, <<"n", "o", "d", "e", "_", "m", "o", "d", "u", "l", "e", "s">>, <<"l", "i", "b">> >>),
       FileEntry(<< <<"s", "r", "c">>, <<"n", "o", "d", "e", "_", "m", "o", "d", "u", "l", "e", "s">>, <<"l", "i", "b">>, <<"z", ".", "t", "s">> >>, Lines2, TRUE) >>

RECURSIVE Pick(_, _, _)
Pick(universe, S, i) ==
    IF i > Len(universe) THEN <<>>
    ELSE (IF i \in S THEN <<universe[i]>> ELSE <<>>) \o Pick(universe, S, i + 1)

\* A tree: every entry's parent directory is in it, and no path occurs twice
IsTree(universe, S) ==
    /\ \A i \in S : Len(universe[i].path) > 1 =>
          \E j \in S : universe[j].kind = "dir" /\ universe[j].path = ParentOf(universe[i].path)
    /\ \A i \in S : \A j \in S : universe[i].path = universe[j].path => i = j

LineKinds == {PlainLine, BlankLine, MarkerLine, OpenerLine, CloserLine, StarCloserLine}

\* The trees of one file, with every content of at most MaxLines lines
OneFileTrees ==
    {<<FileEntry(<< <<"a", ".", "p", "y">> >>, lines, TRUE)>> :
        lines \in SeqsUpTo(LineKinds, MaxLines)}

Trees ==
    {Pick(TreeUniverse, S, 1) :
        S \in {T \in SUBSET (1..Len(TreeUniverse)) : IsTree(TreeUniverse, T)}}
    \cup OneFileTrees

\* The ignore_patterns arguments tried: None and [] select default_ignores
PatternChoices ==
    {None,
     Some(<<>>),
     Some(<<Name_node_modules>>),
     Some(<< <<"*", ".", "p", "y", "c">>, Name_node_modules >>),
     Some(<< <<"*", ".", "p", "y", "c">> >>)}

-----------------------------------------------------------------------------
(* fetcher/github.py: GitHubFetcher *)

Https == <<"h", "t", "t", "p", "s", ":", "/", "/">>
Http == <<"h", "t", "t", "p", ":", "/", "/">>
GitAt == <<"g", "i", "t", "@">>
Host == <<"g", "i", "t", "h", "u", "b", ".", "c", "o", "m">>
DotGit == <<".", "g", "i", "t">>
Slash == <<"/">>
Colon == <<":">>

\* The character class [\w\-\.] of the three patterns
NameChars ==
    {LowerCase[k] : k \in 1..Len(LowerCase)} \cup {UpperCase[k] : k \in 1..Len(UpperCase)}
    \cup {"0", "1", "2", "3", "4", "5", "6", "7", "8", "9", "_", "-", "."}

\* str.rstrip(ch)
RECURSIVE rstrip(_, _)
rstrip(str, ch) ==
    IF str # <<>> /\ str[Len(str)] = ch
    THEN rstrip(SubSeq(str, 1, Len(str) - 1), ch)
    ELSE str

\* str.lstrip(ch)
RECURSIVE lstrip(_, _)
lstrip(str, ch) ==
    IF str # <<>> /\ str[1] = ch THEN lstrip(Tail(str), ch) ELSE str

\* str.strip(), for the blanks the urls tried hold
strip(str) == rstrip(lstrip(str, " "), " ")

\* str.replace(old, ''): every occurrence, left to right
RECURSIVE replace(_, _)
replace(str, old) ==
    IF Len(str) < Len(old) THEN str
    ELSE IF StartsWith(str, old)
         THEN replace(SubSeq(str, Len(old) + 1, Len(str)), old)
         ELSE <<str[1]>> \o replace(Tail(str), old)

\* str.split(sep): the pieces between the occurrences of sep
RECURSIVE SplitFrom(_, _, _)
SplitFrom(str, sep, piece) ==
    IF str = <<>> THEN <<piece>>
    ELSE IF StartsWith(str, sep)
         THEN <<piece>> \o SplitFrom(SubSeq(str, Len(sep) + 1, Len(str)), sep, <<>>)
         ELSE SplitFrom(Tail(str), sep, Append(piece, str[1]))

split(str, sep) == SplitFrom(str, sep, <<>>)

\* [\w\-\.]+
IsName(piece) == piece # <<>> /\ \A k \in 1..Len(piece) : piece[k] \in NameChars

\* [\w\-\.]+\.git
IsGitName(piece) == IsName(piece) /\ Len(piece) > Len(DotGit) /\ EndsWith(piece, DotGit)

\* What follows prefix in str, cut at the slashes
After(str, prefix) == split(SubSeq(str, Len(prefix) + 1, Len(str)), Slash)

\* ^https?://github\.com/[\w\-\.]+/[\w\-\.]+/?$
MatchesHttps(str) ==
    \E prefix \in {Https \o Host \o Slash, Http \o Host \o Slash} :
        /\ StartsWith(str, prefix)
        /\ LET parts == After(str, prefix)
           IN \/ Len(parts) = 2 /\ IsName(parts[1]) /\ IsName(parts[2])
              \/ Len(parts) = 3 /\ IsName(parts[1]) /\ IsName(parts[2]) /\ parts[3] = <<>>

\* ^git@github\.com:[\w\-\.]+/[\w\-\.]+\.git$
MatchesSsh(str) ==
    /\ StartsWith(str, GitAt \o Host \o Colon)
    /\ LET parts == After(str, GitAt \o Host \o Colon)
       IN Len(parts) = 2 /\ IsName(parts[1]) /\ IsGitName(parts[2])

\* ^https?://github\.com/[\w\-\.]+/[\w\-\.]+\.git$
MatchesHttpsGit(str) ==
    \E prefix \in {Https \o Host \o Slash, Http \o Host \o Slash} :
        /\ StartsWith(str, prefix)
        /\ LET parts == After(str, prefix)
           IN Len(parts) = 2 /\ IsName(parts[1]) /\ IsGitName(parts[2])

validate_github_url(str) ==
    LET stripped == strip(str)
    IN MatchesHttps(stripped) \/ MatchesSsh(stripped) \/ MatchesHttpsGit(stripped)

\* The parts extract_repo_name ends with: what follows the last
\* 'github.com/' (else the last 'github.com:'), cut at the slashes; no
\* parts when neither occurs
NameParts(str) ==
    LET cleaned == replace(rstrip(str, "/"), DotGit)
        last(pieces) == pieces[Len(pieces)]
    IN IF Contains(Host \o Slash, cleaned)
       THEN split(last(split(cleaned, Host \o Slash)), Slash)
       ELSE IF Contains(Host \o Colon, cleaned)
            THEN split(last(split(cleaned, Host \o Colon)), Slash)
            ELSE <<>>

\* extract_repo_name raises ValueError
ExtractRaises(str) == Len(NameParts(str)) < 2

\* "owner_repo"
extract_repo_name(str) == NameParts(str)[1] \o <<"_">> \o NameParts(str)[2]

\* cache_expiry_days of GitHubFetcher.__init__
cache_expiry_days == 7

\* The directory cache_dir / repo_name: absent, or a work tree, a bare
\* repository or no repository at all, with the age of its mtime in days
NoCache == [exists |-> FALSE, kind |-> "none", age_days |-> 0]
CacheDir(kind, age_days) == [exists |-> TRUE, kind |-> kind, age_days |-> age_days]

is_cache_valid(dir) ==
    IF ~dir.exists THEN FALSE
    ELSE IF dir.kind # "repo" THEN FALSE
    ELSE dir.age_days < cache_expiry_days

\* evaluate is not running
PipelineIdle ==
    /\ repo_root = "directory"
    /\ checkout = [fs |-> <<>>, repo |-> <<>>]
    /\ fetched = None
    /\ output_format = "terminal"
    /\ stages = <<>>
    /\ result = "running"
    /\ report = "none"
    /\ exit_code = None
    /\ p_pc = "idle"

\* fetch is not running
FetchIdle ==
    /\ url = <<>>
    /\ force_refresh = FALSE
    /\ cache = NoCache
    /\ clone_outcome = "ok"
    /\ fetch_calls = 0
    /\ clones = 0
    /\ deletions = 0
    /\ fetch_result = None
    /\ f_pc = "idle"

\* scan is not running
ScanIdle ==
    /\ fs = <<>>
    /\ ignore_patterns = None
    /\ walk_todo = <<>>
    /\ visited_dirs = <<>>
    /\ read_files = <<>>
    /\ scan_stats = ProjectStats
    /\ max_lines = 0
    /\ largest_file = None
    /\ s_pc = "idle"

-----------------------------------------------------------------------------
(* analyze_repository as a function of the tree *)

\* The order in which the two nested loops reach the files: extension-major,
\* tree order within an extension
RECURSIVE CandidateOrderFrom(_, _)
CandidateOrderFrom(tree, k) ==
    IF k > Len(source_extensions) THEN <<>>
    ELSE rglob(tree, source_extensions[k]) \o CandidateOrderFrom(tree, k + 1)

RECURSIVE AnalyzeFold(_, _, _, _, _)
AnalyzeFold(tree, rootHasTest, cap, order, st) ==
    IF order = <<>> \/ CapReached(st.processed, cap) THEN st
    ELSE IF IsTestPath(rootHasTest, tree[Head(order)])
    THEN AnalyzeFold(tree, rootHasTest, cap, Tail(order), st)
    ELSE LET file_quality == analyze_file(Head(order), tree[Head(order)])
         IN IF file_quality = None
            THEN AnalyzeFold(tree, rootHasTest, cap, Tail(order), st)
            ELSE AnalyzeFold(tree, rootHasTest, cap, Tail(order),
                    [m |-> RecordFile(st.m, file_quality),
                     processed |-> st.processed + 1,
                     cplx |-> IF file_quality.complexity > 0
                              THEN Append(st.cplx, file_quality.complexity)
                              ELSE st.cplx,
                     maint |-> IF file_quality.maintainability > 0
                               THEN Append(st.maint, file_quality.maintainability)
                               ELSE st.maint])

analyze_repository(tree, rootHasTest, cap) ==
    LET st == AnalyzeFold(tree, rootHasTest, cap, CandidateOrderFrom(tree, 1),
                          [m |-> QualityMetrics, processed |-> 0,
                           cplx |-> <<>>, maint |-> <<>>])
    IN Aggregate(st.m, st.cplx, st.maint)

\* max_files: int = 1000
DefaultMaxFiles == 1000

\* The score / recommend stages are not running
EvaluateIdle ==
    /\ config_file = FileMissing
    /\ config = DefaultConfig
    /\ project_stats = None
    /\ quality_metrics = None
    /\ scores = None
    /\ recommendations = <<>>
    /\ e_pc = "idle"

\* analyze_repository is not running
AnalyzeIdle ==
    /\ repo = <<>>
    /\ root_test = FALSE
    /\ max_files = 0
    /\ a_pc = "idle"
    /\ ext_i = 1
    /\ pending = <<>>
    /\ files_processed = 0
    /\ metrics = QualityMetrics
    /\ all_complexities = <<>>
    /\ all_maintainability = <<>>
    /\ calls = <<>>
    /\ cq_score = -1

-----------------------------------------------------------------------------
(* analyze_repository as a state machine: one step per loop iteration *)

InitAnalyze ==
    /\ repo \in Repos
    /\ root_test \in BOOLEAN
    /\ max_files \in 0..MaxFilesCap
    /\ a_pc = "ext_loop"
    /\ ext_i = 1
    /\ pending = <<>>
    /\ files_processed = 0
    /\ metrics = QualityMetrics
    /\ all_complexities = <<>>
    /\ all_maintainability = <<>>
    /\ calls = <<>>
    /\ cq_score = -1
    /\ EvaluateIdle
    /\ ScanIdle
    /\ PipelineIdle
    /\ FetchIdle

\* for ext in source_extensions: the list is exhausted
ExtLoopExhausted ==
    /\ a_pc = "ext_loop"
    /\ ext_i > Len(source_extensions)
    /\ a_pc' = "aggregate"
    /\ UNCHANGED <<repo, root_test, max_files, ext_i, pending, files_processed, metrics,
                   all_complexities, all_maintainability, calls, cq_score>>
    /\ UNCHANGED <<evars, svars, pvars, fvars>>

\* lines 227-228: the outer break
ExtLoopBreak ==
    /\ a_pc = "ext_loop"
    /\ ext_i <= Len(source_extensions)
    /\ CapReached(files_processed, max_files)
    /\ a_pc' = "aggregate"
    /\ UNCHANGED <<repo, root_test, max_files, ext_i, pending, files_processed, metrics,
                   all_complexities, all_maintainability, calls, cq_score>>
    /\ UNCHANGED <<evars, svars, pvars, fvars>>

\* line 230: start the rglob of the current extension
ExtLoopEnter ==
    /\ a_pc = "ext_loop"
    /\ ext_i <= Len(source_extensions)
    /\ ~CapReached(files_processed, max_files)
    /\ pending' = rglob(repo, source_extensions[ext_i])
    /\ a_pc' = "file_loop"
    /\ UNCHANGED <<repo, root_test, max_files, ext_i, files_processed, metrics,
                   all_complexities, all_maintainability, calls, cq_score>>
    /\ UNCHANGED <<evars, svars, pvars, fvars>>

\* the rglob result is exhausted: next extension
FileLoopEnd ==
    /\ a_pc = "file_loop"
    /\ pending = <<>>
    /\ ext_i' = ext_i + 1
    /\ a_pc' = "ext_loop"
    /\ UNCHANGED <<repo, root_test, max_files, pending, files_processed, metrics,
                   all_complexities, all_maintainability, calls, cq_score>>
    /\ UNCHANGED <<evars, svars, pvars, fvars>>

\* lines 231-232: the inner break leaves the rest of this extension unread
FileLoopBreak ==
    /\ a_pc = "file_loop"
    /\ pending # <<>>
    /\ CapReached(files_processed, max_files)
    /\ pending' = <<>>
    /\ ext_i' = ext_i + 1
    /\ a_pc' = "ext_loop"
    /\ UNCHANGED <<repo, root_test, max_files, files_processed, metrics,
                   all_complexities, all_maintainability, calls, cq_score>>
    /\ UNCHANGED <<evars, svars, pvars, fvars>>

\* lines 235-236: a path containing "test" is skipped before analysis
FileSkipTest ==
    /\ a_pc = "file_loop"
    /\ pending # <<>>
    /\ ~CapReached(files_processed, max_files)
    /\ IsTestPath(root_test, repo[Head(pending)])
    /\ pending' = Tail(pending)
    /\ UNCHANGED <<repo, root_test, max_files, a_pc, ext_i, files_processed, metrics,
                   all_complexities, all_maintainability, calls, cq_score>>
    /\ UNCHANGED <<evars, svars, pvars, fvars>>

\* lines 238-240: analyze_file returned None
FileNoResult ==
    /\ a_pc = "file_loop"
    /\ pending # <<>>
    /\ ~CapReached(files_processed, max_files)
    /\ ~IsTestPath(root_test, repo[Head(pending)])
    /\ analyze_file(Head(pending), repo[Head(pending)]) = None
    /\ calls' = Append(calls, Head(pending))
    /\ pending' = Tail(pending)
    /\ UNCHANGED <<repo, root_test, max_files, a_pc, ext_i, files_processed, metrics,
                   all_complexities, all_maintainability, cq_score>>
    /\ UNCHANGED <<evars, svars, pvars, fvars>>

\* lines 238-262: analyze_file returned a FileQuality, which is recorded
FileRecorded ==
    /\ a_pc = "file_loop"
    /\ pending # <<>>
    /\ ~CapReached(files_processed, max_files)
    /\ ~IsTestPath(root_test, repo[Head(pending)])
    /\ LET file_quality == analyze_file(Head(pending), repo[Head(pending)])
       IN /\ file_quality # None
          /\ metrics' = RecordFile(metrics, file_quality)
          /\ files_processed' = files_processed + 1
          /\ all_complexities' =
                IF file_quality.complexity > 0
                THEN Append(all_complexities, file_quality.complexity)
                ELSE all_complexities
          /\ all_maintainability' =
                IF file_quality.maintainability > 0
                THEN Append(all_maintainability, file_quality.maintainability)
                ELSE all_maintainability
    /\ calls' = Append(calls, Head(pending))
    /\ pending' = Tail(pending)
    /\ UNCHANGED <<repo, root_test, max_files, a_pc, ext_i, cq_score>>
    /\ UNCHANGED <<evars, svars, pvars, fvars>>

\* lines 264-282: aggregates, files_analyzed, distribution; return metrics
AnalyzeReturn ==
    /\ a_pc = "aggregate"
    /\ metrics' = Aggregate(metrics, all_complexities, all_maintainability)
    /\ a_pc' = "returned"
    /\ UNCHANGED <<repo, root_test, max_files, ext_i, pending, files_processed,
                   all_complexities, all_maintainability, calls, cq_score>>
    /\ UNCHANGED <<evars, svars, pvars, fvars>>

\* calculate_code_quality_score on the returned metrics, default configuration
ScoreReturned ==
    /\ a_pc = "returned"
    /\ cq_score' = calculate_code_quality_score(DefaultConfig, metrics)
    /\ a_pc' = "scored"
    /\ UNCHANGED <<repo, root_test, max_files, ext_i, pending, files_processed, metrics,
                   all_complexities, all_maintainability, calls>>
    /\ UNCHANGED <<evars, svars, pvars, fvars>>

NextAnalyze ==
    \/ ExtLoopExhausted
    \/ ExtLoopBreak
    \/ ExtLoopEnter
    \/ FileLoopEnd
    \/ FileLoopBreak
    \/ FileSkipTest
    \/ FileNoResult
    \/ FileRecorded
    \/ AnalyzeReturn
    \/ ScoreReturned

SpecAnalyze == InitAnalyze /\ [][NextAnalyze]_vars

-----------------------------------------------------------------------------
(* calculate_scores and generate_recommendations on bounded inputs *)

Ext_js == <<".", "j", "s">>
Ext_test == <<".", "t", "e", "s", "t">>
Dir_tests == <<"t", "e", "s", "t", "s">>
Dir_tests_Data == <<"t", "e", "s", "t", "s", "/", "D", "a", "t", "a">>

\* LANGUAGE_MAP, for the extensions used here
LanguageOf(ext) ==
    IF ext = Ext_py THEN {"Python"}
    ELSE IF ext = Ext_js THEN {"JavaScript"}
    ELSE {}

\* files_by_extension of the scanned tree
FileProfiles ==
    {EmptyDict,
     (Ext_py :> 4),
     (Ext_py :> 2) @@ (Ext_csv :> 1) @@ (Ext_ipynb :> 1),
     (Ext_js :> 2) @@ (Ext_test :> 1),
     (Ext_py :> 4) @@ (Ext_test :> 1),
     (Ext_js :> 8) @@ (Ext_test :> 1),
     (Ext_js :> 19) @@ (Ext_test :> 1),
     (Ext_py :> 4) @@ (Ext_test :> 6)}

\* average_file_size (hundredths) and largest_file_lines
SizeProfiles ==
    {<<F(100), 100>>, <<F(100), 1500>>, <<F(300), 500>>, <<F(600), 2000>>,
     <<F(600), 2500>>, <<F(1200), 2500>>}

\* folders_by_type
FolderProfiles ==
    {EmptyDict, [tests |-> <<Dir_tests>>], [tests |-> <<Dir_tests, Dir_tests_Data>>]}

\* A ProjectStats as scan leaves it: the line totals follow the sizes
MkStats(flags, size, files, folders) ==
    LET total == SumOver(files, DOMAIN files)
    IN [total_files |-> total,
        total_lines |-> (size[1] * total) \div 100,
        total_code_lines |-> (size[1] * total) \div 100,
        total_blank_lines |-> 0,
        total_comment_lines |-> 0,
        files_by_extension |-> files,
        lines_by_extension |-> [e \in DOMAIN files |-> (size[1] * files[e]) \div 100],
        languages |-> UNION {LanguageOf(e) : e \in DOMAIN files},
        has_tests |-> flags[1], has_docs |-> flags[2], has_config |-> flags[3],
        has_requirements |-> flags[4], has_dockerfile |-> flags[5], has_ci_cd |-> flags[6],
        folders_by_type |-> folders,
        average_file_size |-> IF total > 0 THEN size[1] ELSE 0,
        largest_file |-> IF total > 0 THEN Some(<<"a">>) ELSE None,
        largest_file_lines |-> IF total > 0 THEN size[2] ELSE 0]

AllFlags == [1..6 -> BOOLEAN]

AllStats ==
    {MkStats(fl, sz, fi, fo) :
        fl \in AllFlags, sz \in SizeProfiles, fi \in FileProfiles, fo \in FolderProfiles}

FewStats ==
    {MkStats(fl, sz, (Ext_py :> 4), EmptyDict) :
        fl \in {[i \in 1..6 |-> FALSE], [i \in 1..6 |-> TRUE], [i \in 1..6 |-> i = 2]},
        sz \in {<<F(100), 100>>, <<F(1200), 2500>>}}

Dir_models == <<"m", "o", "d", "e", "l", "s">>

\* ProjectStats built by a caller of the scorer, with two folder categories
CallerStats ==
    {MkStats(fl, <<F(100), 100>>, fi, fo) :
        fl \in {[i \in 1..6 |-> FALSE], [i \in 1..6 |-> TRUE]},
        fi \in {(Ext_py :> 4), (Ext_py :> 2) @@ (Ext_csv :> 1) @@ (Ext_ipynb :> 1)},
        fo \in {[tests |-> <<Dir_tests_Data>>, source |-> <<Dir_models>>],
                [tests |-> <<Dir_tests>>, source |-> <<Dir_models>>]}}

\* Readings of the external analyzers for the trees analysed here
JsC25 == [ext |-> ".js", test |-> FALSE, raises |-> FALSE, funcs |-> <<25>>, mi |-> 0, loc |-> 90]
PyPoor == [ext |-> ".py", test |-> FALSE, raises |-> FALSE, funcs |-> <<4, 7>>, mi |-> 2000, loc |-> 2500]

Copies(f, n) == [i \in 1..n |-> f]

AnalyzedTrees ==
    {<<>>, <<PySimple>>, <<PyComplex>>, <<PyPoor>>, <<PyNoFuncs>>, <<PySimple, JsVery>>,
     Copies(JsC25, 4), Copies(JsC25, 7), Copies(PyPoor, 6)}

AnalyzedMetrics == {analyze_repository(t, FALSE, DefaultMaxFiles) : t \in AnalyzedTrees}

\* QualityMetrics given field by field
MkMetrics(avg_c, vcf, files, avg_m, nprob) ==
    [QualityMetrics EXCEPT
        !.average_complexity = avg_c, !.median_complexity = avg_c,
        !.max_complexity = avg_c,
        !.average_maintainability = avg_m, !.median_maintainability = avg_m,
        !.min_maintainability = IF avg_m > 0 THEN avg_m ELSE F(100),
        !.total_functions = files, !.complex_functions = vcf,
        !.very_complex_functions = vcf,
        !.files_analyzed = files,
        !.problematic_files = [i \in 1..nprob |-> i],
        !.quality_distribution = _calculate_distribution(<<>>)]

GridMetrics ==
    {MkMetrics(c, v, n, m, p) :
        c \in {F(3), F(5), F(8), F(10), F(12), F(15), F(18), F(20), 2001, F(25), F(45)},
        v \in {0, 4, 7},
        n \in {0, 10},
        m \in {0, F(20), 4640, F(85), F(100)},
        p \in {0, 3, 6}}

\* Weights that are non-negative and sum to 1.0
WithWeights(w) == [DefaultConfig EXCEPT !.scoring.weights = w]

\* A configuration with the five weights and the two threshold ladders only
MinimalConfig ==
    [scoring |-> [weights |-> DefaultConfig.scoring.weights,
                  thresholds |-> DefaultConfig.scoring.thresholds]]

\* The files that fail to load
FailingFiles == {FileMissing, FileUnreadable, FileUnparsable}

Configs ==
    {DefaultConfig,
     WithWeights([code_quality |-> 100, architecture |-> 0, maintainability |-> 0,
                  test_coverage |-> 0, ml_ai_readiness |-> 0]),
     WithWeights([code_quality |-> 20, architecture |-> 20, maintainability |-> 20,
                  test_coverage |-> 20, ml_ai_readiness |-> 20]),
     WithWeights([code_quality |-> 5, architecture |-> 5, maintainability |-> 45,
                  test_coverage |-> 40, ml_ai_readiness |-> 5])}

Scenarios ==
    ({FileMissing} \X AllStats \X AnalyzedMetrics)
    \cup ({Parsed(DefaultConfig)} \X FewStats \X GridMetrics)
    \cup ({Parsed(c) : c \in Configs \cup {MinimalConfig}} \X FewStats \X AnalyzedMetrics)
    \cup (FailingFiles \X FewStats \X AnalyzedMetrics)
    \cup ({FileMissing} \X CallerStats \X AnalyzedMetrics)

\* The ScoringEngine is constructed before the pipeline runs;
\* project_stats and quality_metrics hold what scan and analyze_repository
\* hand to the scorer in this run
InitEvaluate ==
    /\ \E sc \in Scenarios :
          /\ config_file = sc[1]
          /\ project_stats = sc[2]
          /\ quality_metrics = sc[3]
    /\ config = None
    /\ scores = None
    /\ recommendations = <<>>
    /\ e_pc = "load"
    /\ AnalyzeIdle
    /\ ScanIdle
    /\ PipelineIdle
    /\ FetchIdle

\* ScoringEngine.__init__: self.config = self._load_config(config_path)
LoadConfig ==
    /\ e_pc = "load"
    /\ config' = _load_config(config_file)
    /\ e_pc' = "score"
    /\ UNCHANGED <<config_file, project_stats, quality_metrics, scores, recommendations>>
    /\ UNCHANGED <<avars, svars, pvars, fvars>>

\* scorer.calculate_scores(project_stats, quality_metrics)
CalculateScores ==
    /\ e_pc = "score"
    /\ ~ConfigLookupRaises(config)
    /\ scores' = calculate_scores(config, project_stats, quality_metrics)
    /\ e_pc' = "recommend"
    /\ UNCHANGED <<config_file, config, project_stats, quality_metrics, recommendations>>
    /\ UNCHANGED <<avars, svars, pvars, fvars>>

\* calculate_scores raises; evaluate logs the exception and returns False
CalculateScoresRaises ==
    /\ e_pc = "score"
    /\ ConfigLookupRaises(config)
    /\ e_pc' = "failed"
    /\ UNCHANGED <<config_file, config, project_stats, quality_metrics, scores,
                   recommendations>>
    /\ UNCHANGED <<avars, svars, pvars, fvars>>

\* recommender.generate_recommendations(project_stats, quality_metrics, scores)
GenerateRecommendations ==
    /\ e_pc = "recommend"
    /\ recommendations' = generate_recommendations(project_stats, quality_metrics, scores)
    /\ e_pc' = "report"
    /\ UNCHANGED <<config_file, config, project_stats, quality_metrics, scores>>
    /\ UNCHANGED <<avars, svars, pvars, fvars>>

NextEvaluate ==
    \/ LoadConfig
    \/ CalculateScores
    \/ CalculateScoresRaises
    \/ GenerateRecommendations

SpecEvaluate == InitEvaluate /\ [][NextEvaluate]_vars

-----------------------------------------------------------------------------
(* SpecRoadmap: generate_improvement_roadmap on scores given by its caller *)

\* EvaluationScores as a caller may build them, independent of the
\* ProjectStats they come with
CallerScores ==
    {[EvaluationScores EXCEPT
        !.maintainability_score = m, !.test_coverage_score = t,
        !.ml_ai_readiness_score = a, !.documentation_score = d] :
        m \in {F(30), F(50), F(80)}, t \in {F(40), F(60), F(90)},
        a \in {F(20), F(80)}, d \in {F(30), F(60), F(70), F(100)}}

RoadmapMetrics ==
    {MkMetrics(c, 0, 10, F(85), p) : c \in {F(5), F(10), F(12), F(15), F(18)}, p \in {0, 6}}

InitRoadmap ==
    /\ project_stats \in FewStats
    /\ quality_metrics \in RoadmapMetrics
    /\ scores \in CallerScores
    /\ config_file = FileMissing
    /\ config = None
    /\ recommendations = <<>>
    /\ e_pc = "recommend"
    /\ AnalyzeIdle
    /\ ScanIdle
    /\ PipelineIdle
    /\ FetchIdle

NextRoadmap == GenerateRecommendations

SpecRoadmap == InitRoadmap /\ [][NextRoadmap]_vars

-----------------------------------------------------------------------------
(* SpecScan: ProjectScanner.scan *)

InitScan ==
    /\ fs \in Trees
    /\ ignore_patterns \in PatternChoices
    /\ walk_todo = << <<>> >>
    /\ visited_dirs = <<>>
    /\ read_files = <<>>
    /\ scan_stats = ProjectStats
    /\ max_lines = 0
    /\ largest_file = None
    /\ s_pc = "walk"
    /\ AnalyzeIdle
    /\ EvaluateIdle
    /\ PipelineIdle
    /\ FetchIdle

\* Lines 278-319: os.walk yields the next directory; its ignored
\* subdirectories are removed from dirs, its files are counted
WalkDir ==
    /\ s_pc = "walk"
    /\ walk_todo # <<>>
    /\ LET dir == Head(walk_todo)
           st == WalkStep(ignore_patterns, fs, dir,
                          [stats |-> scan_stats, max_lines |-> max_lines,
                           largest_file |-> largest_file, read |-> read_files])
       IN /\ walk_todo' = KeptDirs(ignore_patterns, Children(fs, dir, "dir")) \o Tail(walk_todo)
          /\ visited_dirs' = Append(visited_dirs, dir)
          /\ scan_stats' = st.stats
          /\ max_lines' = st.max_lines
          /\ largest_file' = st.largest_file
          /\ read_files' = st.read
    /\ UNCHANGED <<fs, ignore_patterns, s_pc>>
    /\ UNCHANGED <<avars, evars, pvars, fvars>>

\* Lines 321-333: the walk is over; derived statistics, feature detection, return
ScanReturn ==
    /\ s_pc = "walk"
    /\ walk_todo = <<>>
    /\ scan_stats' = FinishScan(fs, [stats |-> scan_stats, max_lines |-> max_lines,
                                     largest_file |-> largest_file, read |-> read_files])
    /\ s_pc' = "returned"
    /\ UNCHANGED <<fs, ignore_patterns, walk_todo, visited_dirs, read_files, max_lines,
                   largest_file>>
    /\ UNCHANGED <<avars, evars, pvars, fvars>>

NextScan ==
    \/ WalkDir
    \/ ScanReturn

SpecScan == InitScan /\ [][NextScan]_vars

-----------------------------------------------------------------------------
(* SpecPipeline: ProjectEvaluator.evaluate, one step per stage *)

\* What repo_path can be when scan starts: the clone, or a path that was
\* removed, replaced by a file or closed to this user after fetch returned
RootKinds == {"directory", "missing", "not_a_directory", "no_permission"}

\* What os.walk and rglob find below repo_path: listing errors are
\* swallowed (os.walk has no onerror, rglob ignores them), so a root that
\* is no readable directory reads as an empty tree
Listing(root, entries) == IF root = "directory" THEN entries ELSE <<>>

\* The checkouts tried: the scanner's view (fs) and the analyzer's view (repo)
\* of one tree; at[i] is the place in fs of the file that is repo[i]. The
\* last one carries a vendored file beneath node_modules
Checkouts ==
    {[fs |-> <<>>, repo |-> <<>>, at |-> <<>>],
     [fs |-> <<FileEntry(<< <<"a", ".", "p", "y">> >>, Lines3, TRUE)>>,
      repo |-> <<PySimple>>, at |-> <<1>>],
     [fs |-> <<FileEntry(<< <<"a", ".", "p", "y">> >>, Lines8, TRUE),
               DirEntry(<< <<"t", "e", "s", "t", "s">> >>),
               FileEntry(<< <<"b", ".", "j", "s">> >>, Lines3, TRUE)>>,
      repo |-> <<PyComplex, JsVery>>, at |-> <<1, 3>>],
     [fs |-> <<FileEntry(<< <<"a", ".", "p", "y">> >>, Lines3, TRUE),
               DirEntry(<<Name_node_modules>>),
               FileEntry(<<Name_node_modules, <<"x", ".", "j", "s">> >>, Lines3, TRUE)>>,
      repo |-> <<PySimple, JsVery>>, at |-> <<1, 3>>]}

OutputFormats == {"terminal", "json", "xml"}

InitPipeline ==
    /\ repo_root \in RootKinds
    /\ checkout \in Checkouts
    /\ fetched \in {None, Some("repo_path")}
    /\ output_format \in OutputFormats
    /\ stages = <<>>
    /\ result = "running"
    /\ report = "none"
    /\ exit_code = None
    /\ p_pc = "fetch"
    \* the components are constructed in ProjectEvaluator.__init__
    /\ config_file \in {FileMissing, Parsed(DefaultConfig), Parsed(MinimalConfig)}
    /\ config = _load_config(config_file)
    /\ project_stats = None
    /\ quality_metrics = None
    /\ scores = None
    /\ recommendations = <<>>
    /\ e_pc = "idle"
    /\ AnalyzeIdle
    /\ ScanIdle
    /\ FetchIdle

\* Step 1 without the return: the run goes on with repo_path = None
FetchFailed_NoReturn ==
    /\ p_pc = "fetch"
    /\ fetched = None
    /\ stages' = Append(stages, "fetch")
    /\ p_pc' = "scan"
    /\ UNCHANGED <<repo_root, checkout, fetched, output_format, result, report, exit_code>>
    /\ UNCHANGED <<avars, evars, svars, fvars>>

\* Step 1 (lines 92-104): repo_path is None, evaluate returns False
FetchFailed ==
    /\ p_pc = "fetch"
    /\ fetched = None
    /\ stages' = Append(stages, "fetch")
    /\ result' = "False"
    /\ p_pc' = "done"
    /\ UNCHANGED <<repo_root, checkout, fetched, output_format, report, exit_code>>
    /\ UNCHANGED <<avars, evars, svars, fvars>>

\* Step 1: fetch returned a path
FetchStage ==
    /\ p_pc = "fetch"
    /\ fetched # None
    /\ stages' = Append(stages, "fetch")
    /\ p_pc' = "scan"
    /\ UNCHANGED <<repo_root, checkout, fetched, output_format, result, report, exit_code>>
    /\ UNCHANGED <<avars, evars, svars, fvars>>

\* Step 2 (lines 108-116): scan returns a ProjectStats, also for a root that
\* is no readable directory
ScanStage ==
    /\ p_pc = "scan"
    /\ stages' = Append(stages, "scan")
    /\ project_stats' = scan(None, Listing(repo_root, checkout.fs))
    /\ p_pc' = "analyze"
    /\ UNCHANGED <<repo_root, checkout, fetched, output_format, result, report, exit_code>>
    /\ UNCHANGED <<config_file, config, quality_metrics, scores, recommendations, e_pc>>
    /\ UNCHANGED <<avars, svars, fvars>>

\* Step 2: below a directory that may not be searched, Path.exists raises
\* PermissionError on the Python versions whose exists() lets EACCES
\* through; scan raises
ScanStageRaises ==
    /\ p_pc = "scan"
    /\ repo_root = "no_permission"
    /\ stages' = Append(stages, "scan")
    /\ p_pc' = "except"
    /\ UNCHANGED <<repo_root, checkout, fetched, output_format, result, report, exit_code>>
    /\ UNCHANGED <<avars, evars, svars, fvars>>

\* Step 3 (lines 118-126)
AnalyzeStage ==
    /\ p_pc = "analyze"
    /\ stages' = Append(stages, "analyze")
    /\ quality_metrics' =
          analyze_repository(Listing(repo_root, checkout.repo), FALSE, DefaultMaxFiles)
    /\ p_pc' = "score"
    /\ UNCHANGED <<repo_root, checkout, fetched, output_format, result, report, exit_code>>
    /\ UNCHANGED <<config_file, config, project_stats, scores, recommendations, e_pc>>
    /\ UNCHANGED <<avars, svars, fvars>>

\* Step 4 (lines 128-130)
ScoreStage ==
    /\ p_pc = "score"
    /\ ~ConfigLookupRaises(config)
    /\ stages' = Append(stages, "score")
    /\ scores' = calculate_scores(config, project_stats, quality_metrics)
    /\ p_pc' = "recommend"
    /\ UNCHANGED <<repo_root, checkout, fetched, output_format, result, report, exit_code>>
    /\ UNCHANGED <<config_file, config, project_stats, quality_metrics, recommendations, e_pc>>
    /\ UNCHANGED <<avars, svars, fvars>>

\* Step 4: calculate_scores raises
ScoreStageRaises ==
    /\ p_pc = "score"
    /\ ConfigLookupRaises(config)
    /\ stages' = Append(stages, "score")
    /\ p_pc' = "except"
    /\ UNCHANGED <<repo_root, checkout, fetched, output_format, result, report, exit_code>>
    /\ UNCHANGED <<avars, evars, svars, fvars>>

\* Step 5 (lines 132-136)
RecommendStage ==
    /\ p_pc = "recommend"
    /\ stages' = Append(stages, "recommend")
    /\ recommendations' = generate_recommendations(project_stats, quality_metrics, scores)
    /\ p_pc' = "report"
    /\ UNCHANGED <<repo_root, checkout, fetched, output_format, result, report, exit_code>>
    /\ UNCHANGED <<config_file, config, project_stats, quality_metrics, scores, e_pc>>
    /\ UNCHANGED <<avars, svars, fvars>>

\* Step 6 (lines 138-158): a report for 'terminal' and 'json', then True;
\* False for any other format
ReportStage ==
    /\ p_pc = "report"
    /\ IF output_format \in {"terminal", "json"}
       THEN /\ stages' = Append(stages, "report")
            /\ report' = output_format
            /\ result' = "True"
       ELSE /\ stages' = stages
            /\ report' = report
            /\ result' = "False"
    /\ p_pc' = "done"
    /\ UNCHANGED <<repo_root, checkout, fetched, output_format, exit_code>>
    /\ UNCHANGED <<avars, evars, svars, fvars>>

\* Step 6: generate_json_report raises when output_file cannot be written
\* (report.py line 344, write_text)
ReportStageRaises ==
    /\ p_pc = "report"
    /\ output_format = "json"
    /\ stages' = Append(stages, "report")
    /\ p_pc' = "except"
    /\ UNCHANGED <<repo_root, checkout, fetched, output_format, result, report, exit_code>>
    /\ UNCHANGED <<avars, evars, svars, fvars>>

\* KeyboardInterrupt while evaluate runs (lines 160-162)
Interrupted ==
    /\ p_pc \in {"fetch", "scan", "analyze", "score", "recommend", "report"}
    /\ p_pc' = "except"
    /\ UNCHANGED <<repo_root, checkout, fetched, output_format, stages, result, report,
                   exit_code>>
    /\ UNCHANGED <<avars, evars, svars, fvars>>

\* The except clauses (lines 160-165) log and return False
ExceptReturn ==
    /\ p_pc = "except"
    /\ result' = "False"
    /\ p_pc' = "done"
    /\ UNCHANGED <<repo_root, checkout, fetched, output_format, stages, report, exit_code>>
    /\ UNCHANGED <<avars, evars, svars, fvars>>

\* main: return 0 if success else 1
MainReturn ==
    /\ p_pc = "done"
    /\ exit_code' = Some(IF result = "True" THEN 0 ELSE 1)
    /\ p_pc' = "exited"
    /\ UNCHANGED <<repo_root, checkout, fetched, output_format, stages, result, report>>
    /\ UNCHANGED <<avars, evars, svars, fvars>>

NextPipeline ==
    \/ FetchFailed
    \/ FetchStage
    \/ ScanStage
    \/ ScanStageRaises
    \/ AnalyzeStage
    \/ ScoreStage
    \/ ScoreStageRaises
    \/ RecommendStage
    \/ ReportStage
    \/ ReportStageRaises
    \/ Interrupted
    \/ ExceptReturn
    \/ MainReturn

SpecPipeline == InitPipeline /\ [][NextPipeline]_vars

-----------------------------------------------------------------------------
(* SpecFetch: calls of GitHubFetcher.fetch on one cache directory *)

Path_u_r == Slash \o <<"u">> \o Slash \o <<"r">>

\* The urls tried: the four accepted shapes, one with blanks around it, an
\* accepted url whose owner ends with the host name, and three rejected ones
Urls ==
    {Https \o Host \o Path_u_r,
     Https \o Host \o Path_u_r \o Slash,
     Http \o Host \o Path_u_r \o DotGit,
     GitAt \o Host \o Colon \o <<"u">> \o Slash \o <<"r">> \o DotGit,
     <<" ">> \o Https \o Host \o Path_u_r \o <<" ">>,
     Https \o Host \o Slash \o Host \o Slash \o <<"r">>,
     Https \o Host \o Slash \o <<"u">>,
     Https \o <<"x">> \o Host \o Path_u_r,
     GitAt \o Host \o Colon \o <<"u">> \o Slash \o <<"r">>}

Ages == {0, 6, 7, 8}

CacheStates ==
    {NoCache} \cup {CacheDir(kind, age) : kind \in {"repo", "bare", "not_git"}, age \in Ages}

\* What clone_repository meets: nothing, shutil.rmtree raising on the old
\* directory, or git.Repo.clone_from raising
CloneOutcomes == {"ok", "rmtree_raises", "clone_from_raises"}

InitFetch ==
    /\ url = <<>>
    /\ force_refresh = FALSE
    /\ cache \in CacheStates
    /\ clone_outcome = "ok"
    /\ fetch_calls = 0
    /\ clones = 0
    /\ deletions = 0
    /\ fetch_result = None
    /\ f_pc = "ready"
    /\ AnalyzeIdle
    /\ EvaluateIdle
    /\ ScanIdle
    /\ PipelineIdle

\* fetch(url, force_refresh) is called
FetchCall ==
    /\ f_pc \in {"ready", "done"}
    /\ fetch_calls < MaxFetchCalls
    /\ url' \in Urls
    /\ force_refresh' \in BOOLEAN
    /\ clone_outcome' \in CloneOutcomes
    /\ fetch_calls' = fetch_calls + 1
    /\ fetch_result' = None
    /\ f_pc' = "validate"
    /\ UNCHANGED <<cache, clones, deletions>>
    /\ UNCHANGED <<avars, evars, svars, pvars>>

\* Between two calls the cached directory grows older
TimePasses ==
    /\ f_pc \in {"ready", "done"}
    /\ cache.exists
    /\ \E age \in Ages :
          /\ age > cache.age_days
          /\ cache' = [cache EXCEPT !.age_days = age]
    /\ UNCHANGED <<url, force_refresh, clone_outcome, fetch_calls, clones, deletions,
                   fetch_result, f_pc>>
    /\ UNCHANGED <<avars, evars, svars, pvars>>

\* lines 177-180
ValidateUrl ==
    /\ f_pc = "validate"
    /\ IF validate_github_url(url)
       THEN f_pc' = "extract"
       ELSE f_pc' = "done"
    /\ fetch_result' = None
    /\ UNCHANGED <<url, force_refresh, cache, clone_outcome, fetch_calls, clones, deletions>>
    /\ UNCHANGED <<avars, evars, svars, pvars>>

\* lines 182-187: a ValueError of extract_repo_name ends the call with None
ExtractName ==
    /\ f_pc = "extract"
    /\ IF ExtractRaises(url)
       THEN f_pc' = "done"
       ELSE f_pc' = "cache"
    /\ fetch_result' = None
    /\ UNCHANGED <<url, force_refresh, cache, clone_outcome, fetch_calls, clones, deletions>>
    /\ UNCHANGED <<avars, evars, svars, pvars>>

\* lines 189-195
CheckCache ==
    /\ f_pc = "cache"
    /\ IF ~force_refresh /\ is_cache_valid(cache)
       THEN /\ fetch_result' = Some(extract_repo_name(url))
            /\ f_pc' = "done"
       ELSE /\ fetch_result' = None
            /\ f_pc' = "clone"
    /\ UNCHANGED <<url, force_refresh, cache, clone_outcome, fetch_calls, clones, deletions>>
    /\ UNCHANGED <<avars, evars, svars, pvars>>

\* lines 197-201 with clone_repository (lines 122-156): the old directory
\* is removed, then the repository is cloned; either may raise
CloneRepository ==
    /\ f_pc = "clone"
    /\ IF cache.exists /\ clone_outcome = "rmtree_raises"
       THEN /\ fetch_result' = None
            /\ UNCHANGED <<cache, clones, deletions>>
       ELSE /\ deletions' = IF cache.exists THEN deletions + 1 ELSE deletions
            /\ clones' = clones + 1
            /\ IF clone_outcome = "clone_from_raises"
               THEN /\ cache' = NoCache
                    /\ fetch_result' = None
               ELSE /\ cache' = CacheDir("repo", 0)
                    /\ fetch_result' = Some(extract_repo_name(url))
    /\ f_pc' = "done"
    /\ UNCHANGED <<url, force_refresh, clone_outcome, fetch_calls>>
    /\ UNCHANGED <<avars, evars, svars, pvars>>

NextFetch ==
    \/ FetchCall
    \/ TimePasses
    \/ ValidateUrl
    \/ ExtractName
    \/ CheckCache
    \/ CloneRepository

SpecFetch == InitFetch /\ [][NextFetch]_vars

-----------------------------------------------------------------------------
(* Properties of analyze_repository (SpecAnalyze) *)

AnalyzeDone == a_pc \in {"returned", "scored"}

\* The non-test candidates of the tree with a whitelisted extension
Candidates ==
    {i \in 1..Len(repo) :
        /\ \E k \in 1..Len(source_extensions) : repo[i].ext = source_extensions[k]
        /\ ~IsTestPath(root_test, repo[i])}

Called == {calls[k] : k \in 1..Len(calls)}

\* C1: when analyze_repository ends with files_analyzed == 0, every aggregate
\* of the returned QualityMetrics has its declared default (0, and 100 for
\* min_maintainability), problematic_files is empty, the four buckets are 0,
\* and calculate_code_quality_score on it returns exactly 50.
C1_EmptyDefaults ==
    (AnalyzeDone /\ metrics.files_analyzed = 0) =>
        /\ metrics.average_complexity = 0
        /\ metrics.median_complexity = 0
        /\ metrics.max_complexity = 0
        /\ metrics.average_maintainability = 0
        /\ metrics.median_maintainability = 0
        /\ metrics.min_maintainability = F(100)
        /\ metrics.total_functions = 0
        /\ metrics.complex_functions = 0
        /\ metrics.very_complex_functions = 0
        /\ metrics.problematic_files = <<>>
        /\ metrics.quality_distribution =
             [simple |-> 0, moderate |-> 0, complex |-> 0, very_complex |-> 0]
        /\ (a_pc = "scored" => cq_score = F(50))

\* A tree with candidate files, all handed to the analyzer, none of which
\* gave a result, scored
C1_Witness ==
    /\ a_pc = "scored"
    /\ metrics.files_analyzed = 0
    /\ Candidates # {}
    /\ Called = Candidates
    /\ max_files > 0

\* C2: in every returned QualityMetrics the four bucket counts sum to
\* files_analyzed, and files_analyzed is the length of file_metrics.
C2_DistributionSum ==
    AnalyzeDone =>
        /\ metrics.quality_distribution.simple
           + metrics.quality_distribution.moderate
           + metrics.quality_distribution.complex
           + metrics.quality_distribution.very_complex = metrics.files_analyzed
        /\ metrics.files_analyzed = Len(metrics.file_metrics)

\* Two analyzed files in different buckets, one of them very complex
C2_Witness ==
    /\ AnalyzeDone
    /\ metrics.files_analyzed = 2
    /\ metrics.quality_distribution.very_complex = 1
    /\ metrics.quality_distribution.simple = 1

\* C10: analyze_repository stops after max_files successful analyses: the
\* result has files_analyzed <= max_files, and once max_files files are
\* recorded no further file is handed to the per-file analyzer.
C10_MaxFilesCap ==
    /\ [](AnalyzeDone => metrics.files_analyzed <= max_files)
    /\ [][Len(metrics.file_metrics) >= max_files => calls' = calls]_vars

\* The cap was reached while an analyzable candidate was still unread
\* The step machine returns what the function of the tree returns
AnalyzeFoldAgrees ==
    AnalyzeDone => metrics = analyze_repository(repo, root_test, max_files)

C10_Witness ==
    /\ AnalyzeDone
    /\ max_files > 0
    /\ metrics.files_analyzed = max_files
    /\ \E i \in Candidates : i \notin Called /\ analyze_file(i, repo[i]) # None

-----------------------------------------------------------------------------
(* Properties of calculate_scores and generate_recommendations (SpecEvaluate) *)

Scored == e_pc \in {"recommend", "report"}

Recommended == e_pc = "report"

CategoryScores(sc) ==
    <<sc.code_quality_score, sc.architecture_score, sc.maintainability_score,
      sc.test_coverage_score, sc.ml_ai_readiness_score>>

\* C3: under the default configuration each of the five category scores
\* returned by calculate_scores lies in [0, 100].
C3_ScoresInRange ==
    (Scored /\ config = DefaultConfig) =>
        \A k \in 1..5 : CategoryScores(scores)[k] >= 0 /\ CategoryScores(scores)[k] <= F(100)

\* The maintainability clamp acts: the additive score is below 0, the
\* returned one is 0
C3_Witness ==
    /\ Scored
    /\ config = DefaultConfig
    /\ MaintainabilityRaw(quality_metrics, project_stats) < 0
    /\ scores.maintainability_score = 0
    /\ scores.architecture_score = F(100)

\* C4: the grade is a step function of the rounded overall_score with
\* boundaries exactly at 90/80/70/60.
C4_GradeBoundaries ==
    Scored =>
        /\ (scores.grade = "A") <=> (scores.overall_score >= F(90))
        /\ (scores.grade = "B") <=> (scores.overall_score >= F(80) /\ scores.overall_score < F(90))
        /\ (scores.grade = "C") <=> (scores.overall_score >= F(70) /\ scores.overall_score < F(80))
        /\ (scores.grade = "D") <=> (scores.overall_score >= F(60) /\ scores.overall_score < F(70))
        /\ (scores.grade = "F") <=> (scores.overall_score < F(60))

RawOverall ==
    WeightedSum(config.scoring.weights, scores.code_quality_score,
                scores.architecture_score, scores.maintainability_score,
                scores.test_coverage_score, scores.ml_ai_readiness_score)

\* The weighted sum is below a boundary and rounds up onto it: the grade is
\* the one of the rounded score
C4_Witness ==
    /\ Scored
    /\ \E b \in {F(60), F(70), F(80), F(90)} :
          /\ RawOverall < b * 100
          /\ scores.overall_score = b
          /\ scores.grade = _calculate_grade(b)

GradeRank(g) == CASE g = "A" -> 4 [] g = "B" -> 3 [] g = "C" -> 2 [] g = "D" -> 1 [] g = "F" -> 0

\* The overall score with category k raised by d hundredths
OverallWith(k, d) ==
    LET c == [CategoryScores(scores) EXCEPT ![k] = @ + d]
    IN Round2(WeightedSum(config.scoring.weights, c[1], c[2], c[3], c[4], c[5]))

Raises == {1, 49, 50, F(5), F(30)}

\* C5: overall_score is the weighted sum of the five category scores rounded
\* to two decimals, and with non-negative weights summing to 1.0 raising one
\* category score, the others fixed, lowers neither overall_score nor the grade.
C5_OverallMonotone ==
    Scored =>
        /\ scores.overall_score = Round2(RawOverall)
        /\ \A k \in 1..5 : \A d \in Raises :
              CategoryScores(scores)[k] + d <= F(100) =>
                 /\ OverallWith(k, d) >= scores.overall_score
                 /\ GradeRank(_calculate_grade(OverallWith(k, d))) >= GradeRank(scores.grade)

\* Raising the test coverage score lifts the overall score over a grade boundary
C5_Witness ==
    /\ Scored
    /\ scores.test_coverage_score + F(30) <= F(100)
    /\ OverallWith(4, F(30)) > scores.overall_score
    /\ GradeRank(_calculate_grade(OverallWith(4, F(30)))) > GradeRank(scores.grade)

\* The rules in the order in which generate_recommendations evaluates them
RuleOrder ==
    <<"Reduce Code Complexity", "Optimize Complex Functions", "Address Problematic Files",
      "Improve Code Maintainability",
      "Add Configuration Management", "Containerize Application", "Set Up CI/CD Pipeline",
      "Refactor Large Files",
      "Break Down Large Files",
      "Add Unit Tests", "Improve Test Coverage",
      "Enhance ML/AI Capabilities",
      "Add Project Documentation", "Enhance Documentation">>

RuleIndex(title) == CHOOSE k \in 1..Len(RuleOrder) : RuleOrder[k] = title

\* C6: the returned list is ordered by priority rank Critical(0) <= High(1)
\* <= Medium(2) <= Low(3), and recommendations of equal priority keep the
\* rule-evaluation order.
C6_PriorityOrderStable ==
    Recommended =>
        \A i \in 1..Len(recommendations) : \A j \in 1..Len(recommendations) :
            i < j =>
               /\ PriorityRank(recommendations[i]) <= PriorityRank(recommendations[j])
               /\ PriorityRank(recommendations[i]) = PriorityRank(recommendations[j])
                    => RuleIndex(recommendations[i].title) < RuleIndex(recommendations[j].title)

\* The sort moved something, all four priorities occur, and three
\* recommendations share one priority
C6_Witness ==
    /\ Recommended
    /\ recommendations # CollectRecommendations(project_stats, quality_metrics, scores)
    /\ {recommendations[i].priority : i \in 1..Len(recommendations)}
         = {"Critical", "High", "Medium", "Low"}
    /\ \E i \in 1..Len(recommendations) :
          /\ i + 2 <= Len(recommendations)
          /\ recommendations[i].priority = recommendations[i + 2].priority

\* The scenario of C7: default thresholds, files analysed, average
\* complexity 25, four very complex functions
C7_Scenario ==
    /\ Scored
    /\ config = DefaultConfig
    /\ quality_metrics.files_analyzed > 0
    /\ quality_metrics.average_complexity = F(25)
    /\ quality_metrics.very_complex_functions = 4

\* C7 as stated: base score 20, penalty 20, final code_quality_score 0.
C7_Original ==
    C7_Scenario =>
        /\ ComplexityScore(quality_metrics.average_complexity,
                           config.scoring.thresholds.complexity) = F(20)
        /\ ComplexityPenalty(quality_metrics) = F(20)
        /\ scores.code_quality_score = 0

\* C7 amended: in that scenario the base score is max(20, 100 - 2*25) = 50,
\* the penalty is min(30, 4*5) = 20 and the final code_quality_score is 30.
C7_Amended ==
    C7_Scenario =>
        /\ ComplexityScore(quality_metrics.average_complexity,
                           config.scoring.thresholds.complexity) = F(50)
        /\ ComplexityPenalty(quality_metrics) = F(20)
        /\ scores.code_quality_score = F(30)

\* The scenario, reached from the analysis of four files of complexity 25
C7_Witness ==
    /\ C7_Scenario
    /\ Len(quality_metrics.file_metrics) = 4
    /\ scores.code_quality_score = F(30)

\* The scenario of C8: exactly one analysed file, of complexity 3 and
\* maintainability 85, and no tests, docs or config detected
C8_Scenario ==
    /\ Recommended
    /\ quality_metrics.files_analyzed = 1
    /\ Len(quality_metrics.file_metrics) = 1
    /\ quality_metrics.file_metrics[1].complexity = F(3)
    /\ quality_metrics.file_metrics[1].maintainability = F(85)
    /\ ~project_stats.has_tests
    /\ ~project_stats.has_docs
    /\ ~project_stats.has_config

C8_Outcome ==
    /\ quality_metrics.average_complexity = F(3)
    /\ scores.code_quality_score = F(100)
    /\ recommendations # <<>>
    /\ recommendations[1] = Recommendation("Add Unit Tests", "Critical", "Testing")

\* C8 as stated: the outcome holds whatever the file's line count.
C8_Original == C8_Scenario => C8_Outcome

\* C8 amended: the outcome holds when the largest file has at most 2000 lines.
C8_Amended ==
    (C8_Scenario /\ project_stats.largest_file_lines <= 2000) => C8_Outcome

\* The scenario with a largest file of exactly 2000 lines
C8_Witness ==
    /\ C8_Scenario
    /\ project_stats.largest_file_lines = 2000
    /\ recommendations[1].title = "Add Unit Tests"
    /\ Len(recommendations) > 3

-----------------------------------------------------------------------------
(* Properties of SpecScan *)

ScanDone == s_pc = "returned"

\* The path has a component named node_modules
UnderNodeModules(path) == \E i \in 1..Len(path) : path[i] = Name_node_modules

RECURSIVE WithoutNodeModules(_)
WithoutNodeModules(tree) ==
    IF tree = <<>> THEN <<>>
    ELSE (IF UnderNodeModules(Head(tree).path) THEN <<>> ELSE <<Head(tree)>>)
         \o WithoutNodeModules(Tail(tree))

PatternsContainNodeModules ==
    /\ s_pc # "idle"
    /\ \E k \in 1..Len(SpecPatterns(ignore_patterns)) :
          SpecPatterns(ignore_patterns)[k] = Name_node_modules

\* The statistics that the files counted by the walk make up
CountedStats(stats) ==
    [total_files |-> stats.total_files,
     total_lines |-> stats.total_lines,
     total_code_lines |-> stats.total_code_lines,
     total_blank_lines |-> stats.total_blank_lines,
     total_comment_lines |-> stats.total_comment_lines,
     files_by_extension |-> stats.files_by_extension,
     lines_by_extension |-> stats.lines_by_extension,
     languages |-> stats.languages,
     average_file_size |-> stats.average_file_size,
     largest_file_lines |-> stats.largest_file_lines,
     largest_file |-> stats.largest_file]

\* C9: when the ignore patterns contain "node_modules", a directory named
\* node_modules at any depth is pruned before descent: the walk never yields
\* it or anything beneath it, reads no file beneath it, and the returned
\* total_files, total_lines, code/blank/comment totals, files_by_extension,
\* lines_by_extension, languages, average_file_size and largest_file /
\* largest_file_lines are those of the tree without its node_modules directories.
C9_NodeModulesPruned ==
    PatternsContainNodeModules =>
        /\ \A i \in 1..Len(walk_todo) : ~UnderNodeModules(walk_todo[i])
        /\ \A i \in 1..Len(visited_dirs) : ~UnderNodeModules(visited_dirs[i])
        /\ \A i \in 1..Len(read_files) : ~UnderNodeModules(read_files[i])
        /\ ScanDone =>
              CountedStats(scan_stats)
                 = CountedStats(scan(ignore_patterns, WithoutNodeModules(fs)))

\* A returned scan under a pattern list naming node_modules, of a tree with
\* a top-level and a nested node_modules that hold files, the longest file of
\* the tree among them, where the two files outside were counted
C9_Witness ==
    /\ ScanDone
    /\ PatternsContainNodeModules
    /\ ignore_patterns # None
    /\ \E i \in 1..Len(fs) : fs[i].kind = "file" /\ Len(fs[i].path) = 2
                             /\ fs[i].path[1] = Name_node_modules
    /\ \E i \in 1..Len(fs) : fs[i].kind = "file" /\ Len(fs[i].path) = 4
                             /\ fs[i].path[2] = Name_node_modules
    /\ \E i \in 1..Len(fs) : fs[i].kind = "file" /\ UnderNodeModules(fs[i].path)
                             /\ Len(fs[i].lines) > scan_stats.largest_file_lines
    /\ scan_stats.total_files = 2
    /\ scan_stats.largest_file_lines = 5

-----------------------------------------------------------------------------
(* Properties of SpecAnalyze: skipped files and function counts *)

\* The file the inner loop is about to hand to analyze_file
AtCandidate ==
    /\ a_pc = "file_loop"
    /\ pending # <<>>
    /\ ~CapReached(files_processed, max_files)
    /\ ~IsTestPath(root_test, repo[Head(pending)])

\* C11: a candidate file that yields no functions, or whose analysis raises,
\* contributes nothing: file_metrics, the max_files counter, the aggregate
\* lists, the function counts and problematic_files are left as they were,
\* on the Radon path as on the Lizard path.
C11_Original ==
    [][(AtCandidate /\ (repo[Head(pending)].raises \/ repo[Head(pending)].funcs = <<>>))
          => /\ metrics' = metrics
             /\ files_processed' = files_processed
             /\ all_complexities' = all_complexities
             /\ all_maintainability' = all_maintainability]_vars

\* The number of entries of a sequence of complexities above a threshold
RECURSIVE CountAbove(_, _)
CountAbove(funcs, threshold) ==
    IF funcs = <<>> THEN 0
    ELSE (IF Head(funcs) > threshold THEN 1 ELSE 0) + CountAbove(Tail(funcs), threshold)

\* The functions above a threshold over all analyzed files
RECURSIVE FunctionsAbove(_, _)
FunctionsAbove(file_metrics, threshold) ==
    IF file_metrics = <<>> THEN 0
    ELSE CountAbove(repo[Head(file_metrics).file_path].funcs, threshold)
         + FunctionsAbove(Tail(file_metrics), threshold)

\* C12: in the returned QualityMetrics, complex_functions is the number of
\* functions over all analyzed files whose cyclomatic complexity exceeds 10
\* and very_complex_functions the number of those exceeding 20.
C12_Original ==
    AnalyzeDone =>
        /\ metrics.complex_functions
              = FunctionsAbove(metrics.file_metrics, COMPLEXITY_THRESHOLDS.moderate)
        /\ metrics.very_complex_functions
              = FunctionsAbove(metrics.file_metrics, COMPLEXITY_THRESHOLDS.very_complex)

-----------------------------------------------------------------------------
(* Properties of SpecEvaluate: test coverage and ML/AI readiness *)

\* An extension that signals a test, as calculate_test_coverage_score tests it
SignalsTest(ext) == Contains(Str_test, ext) \/ ext \in {Ext_test_py, Ext_spec_js}

\* The number of files whose extension signals a test
TestFileCount(stats) ==
    SumOver(stats.files_by_extension,
            {ext \in DOMAIN stats.files_by_extension : SignalsTest(ext)})

\* C13: calculate_test_coverage_score returns 0 when has_tests is false;
\* otherwise, with r = (number of files whose name or extension signals a
\* test) / total_files, 90 if r >= 0.3, 75 if 0.2 <= r < 0.3, 60 if
\* 0.1 <= r < 0.2 and 40 if r < 0.1 or total_files == 0.
C13_Original ==
    Scored =>
        LET n == TestFileCount(project_stats)
            total == project_stats.total_files
        IN scores.test_coverage_score =
              IF ~project_stats.has_tests THEN 0
              ELSE IF total = 0 THEN F(40)
              ELSE IF n * 10 >= 3 * total THEN F(90)
              ELSE IF n * 10 >= 2 * total THEN F(75)
              ELSE IF n * 10 >= total THEN F(60)
              ELSE F(40)

\* Some folder of some category names an ML folder
HasMlFolder(stats) ==
    \E t \in DOMAIN stats.folders_by_type :
        \E k \in 1..Len(stats.folders_by_type[t]) : IsMlFolder(stats.folders_by_type[t][k])

\* C14: calculate_ml_ai_readiness_score returns min(100, 20*[Python in
\* languages] + 20*[has_requirements] + 15*[some folder name contains an ML
\* keyword] + 15*[a data extension is present] + 10*[.ipynb present]): the
\* ML-folder bonus is added at most once, however many folders or folder
\* categories match.
C14_Original ==
    Scored =>
        scores.ml_ai_readiness_score =
            Min2(F(100),
                 (IF "Python" \in project_stats.languages THEN F(20) ELSE 0)
                 + (IF project_stats.has_requirements THEN F(20) ELSE 0)
                 + (IF HasMlFolder(project_stats) THEN F(15) ELSE 0)
                 + (IF \E k \in 1..Len(data_extensions) :
                          data_extensions[k] \in DOMAIN project_stats.files_by_extension
                    THEN F(15) ELSE 0)
                 + (IF Ext_ipynb \in DOMAIN project_stats.files_by_extension
                    THEN F(10) ELSE 0))

-----------------------------------------------------------------------------
(* Properties of SpecScan: unreadable files and line totals *)

RECURSIVE WithoutUnreadable(_)
WithoutUnreadable(tree) ==
    IF tree = <<>> THEN <<>>
    ELSE (IF Head(tree).kind = "file" /\ ~Head(tree).readable THEN <<>> ELSE <<Head(tree)>>)
         \o WithoutUnreadable(Tail(tree))

\* C15: a file whose read fails is skipped with zero contribution:
\* total_files, the line totals, files_by_extension, lines_by_extension,
\* languages and the largest-file tracker are the same as if the file were
\* absent, and the scan goes on with the remaining files.
C15_Original ==
    ScanDone =>
        LET absent == scan(ignore_patterns, WithoutUnreadable(fs))
        IN /\ scan_stats.total_files = absent.total_files
           /\ scan_stats.total_lines = absent.total_lines
           /\ scan_stats.total_code_lines = absent.total_code_lines
           /\ scan_stats.total_blank_lines = absent.total_blank_lines
           /\ scan_stats.total_comment_lines = absent.total_comment_lines
           /\ scan_stats.files_by_extension = absent.files_by_extension
           /\ scan_stats.lines_by_extension = absent.lines_by_extension
           /\ scan_stats.languages = absent.languages
           /\ scan_stats.largest_file = absent.largest_file
           /\ scan_stats.largest_file_lines = absent.largest_file_lines

\* The blank lines inside an open multi-line block (counted as blank and as
\* comment) less the plain lines outside any block, for one file
RECURSIVE BlankInBlockLessPlain(_, _)
BlankInBlockLessPlain(lines, in_multiline) ==
    IF lines = <<>> THEN 0
    ELSE LET l == Head(lines)
         IN IF l.marker THEN BlankInBlockLessPlain(Tail(lines), in_multiline)
            ELSE IF l.opener THEN BlankInBlockLessPlain(Tail(lines), ~in_multiline)
            ELSE (IF in_multiline THEN (IF l.blank THEN 1 ELSE 0)
                  ELSE (IF l.blank THEN 0 ELSE -1))
                 + BlankInBlockLessPlain(Tail(lines), in_multiline)

\* The entries of the tree that the walk counted
CountedFiles ==
    {i \in 1..Len(fs) : /\ fs[i].kind = "file"
                        /\ \E k \in 1..Len(read_files) : read_files[k] = fs[i].path}

\* What the classification counts twice, summed over the counted files
RECURSIVE DoubleCounted(_)
DoubleCounted(S) ==
    IF S = {} THEN 0
    ELSE LET i == CHOOSE x \in S : TRUE
         IN (IF fs[i].readable
             THEN Max2(0, BlankInBlockLessPlain(fs[i].lines, FALSE)) ELSE 0)
            + DoubleCounted(S \ {i})

\* C16: for every ProjectStats returned by scan, total_lines ==
\* total_code_lines + total_blank_lines + total_comment_lines, for any
\* sequence of blank, marker-prefixed, marker-containing and plain lines.
C16_Original ==
    ScanDone =>
        scan_stats.total_lines
           = scan_stats.total_code_lines + scan_stats.total_blank_lines
             + scan_stats.total_comment_lines

\* C16 (amended): total_lines <= total_code_lines + total_blank_lines +
\* total_comment_lines; the sum exceeds total_lines by, for each counted
\* file, the number of blank lines inside an open multi-line block less the
\* number of plain lines outside any block, when that is positive, and the
\* two are equal when no counted file has a blank line inside an open block.
C16_Amended ==
    ScanDone =>
        scan_stats.total_code_lines + scan_stats.total_blank_lines
           + scan_stats.total_comment_lines
           = scan_stats.total_lines + DoubleCounted(CountedFiles)

\* A returned scan of a file made of an opener line and two blank lines:
\* 3 lines, 2 blank, 3 comment, code clamped to 0
C16_Witness ==
    /\ ScanDone
    /\ Len(fs) = 1
    /\ fs[1].kind = "file"
    /\ fs[1].lines = <<OpenerLine, BlankLine, BlankLine>>
    /\ scan_stats.total_lines = 3
    /\ scan_stats.total_blank_lines = 2
    /\ scan_stats.total_comment_lines = 3
    /\ scan_stats.total_code_lines = 0

-----------------------------------------------------------------------------
(* Properties of SpecEvaluate: the scoring configuration *)

ConfigLoaded == e_pc \in {"score", "recommend", "report", "failed"}

\* C17: when the configuration file is missing or cannot be read or parsed,
\* the construction of ScoringEngine does not raise: the configuration is
\* the built-in defaults (weights 0.30/0.25/0.20/0.15/0.10, complexity bands
\* 5/10/15/20, maintainability bands 80/65/50/25), and calculate_scores
\* completes and returns EvaluationScores.
C17_ConfigFallback ==
    (ConfigLoaded /\ config_file \in FailingFiles) =>
        /\ config # None
        /\ config.scoring.weights
              = [code_quality |-> 30, architecture |-> 25, maintainability |-> 20,
                 test_coverage |-> 15, ml_ai_readiness |-> 10]
        /\ config.scoring.thresholds.complexity
              = [excellent |-> 5, good |-> 10, moderate |-> 15, poor |-> 20]
        /\ config.scoring.thresholds.maintainability
              = [excellent |-> 80, good |-> 65, moderate |-> 50, poor |-> 25]
        /\ e_pc # "failed"
        /\ e_pc # "score" => /\ scores # None
                             /\ DOMAIN scores = DOMAIN EvaluationScores

\* Scores were returned in a run whose configuration file could not be parsed
C17_Witness ==
    /\ Scored
    /\ config_file = FileUnparsable
    /\ config = DefaultConfig
    /\ scores # None
    /\ scores.overall_score > 0

\* C18: a configuration that parses and supplies exactly the five category
\* weights and the two four-band threshold ladders is sufficient:
\* calculate_scores returns EvaluationScores without raising.
C18_Original ==
    (/\ e_pc \notin {"idle", "load"}
     /\ config_file.file = "parsed"
     /\ DOMAIN config.scoring = {"weights", "thresholds"})
        => /\ e_pc # "failed"
           /\ e_pc # "score" => scores # None

-----------------------------------------------------------------------------
(* Properties of SpecPipeline *)

\* The stage was started
Started(stage) == \E k \in 1..Len(stages) : stages[k] = stage

\* C19: when the repository root passed to scan is no readable directory,
\* the Scanner stage fails and no ProjectStats is returned; evaluate then
\* returns False without running analysis, scoring, recommendation or
\* reporting on an empty snapshot.
C19_Original ==
    (repo_root # "directory" /\ Started("scan")) =>
        /\ project_stats = None
        /\ ~Started("analyze")
        /\ ~Started("score")
        /\ ~Started("recommend")
        /\ ~Started("report")
        /\ p_pc = "done" => result = "False"

-----------------------------------------------------------------------------
(* Properties of SpecFetch *)

\* The step on which fetch returns
FetchReturns == f_pc # "done" /\ f_pc' = "done"

\* fetch returns the cached path: nothing is cloned or removed
ReturnsCached ==
    /\ f_pc = "cache"
    /\ fetch_result' # None
    /\ UNCHANGED <<cache, clones, deletions>>

\* fetch returns the path of a fresh clone
ReturnsClone ==
    /\ f_pc = "clone"
    /\ fetch_result' # None
    /\ clones' = clones + 1
    /\ cache' = CacheDir("repo", 0)

\* What the claim says of a returning call of fetch whose url is accepted
FetchContract(accepted) ==
    /\ (accepted /\ force_refresh) => f_pc = "clone"
    /\ (accepted /\ ~force_refresh) => (ReturnsCached <=> is_cache_valid(cache))
    /\ fetch_result' # None => (ReturnsCached \/ ReturnsClone)
    /\ ~validate_github_url(url) => fetch_result' = None /\ UNCHANGED <<cache, clones, deletions>>
    /\ (f_pc = "clone" /\ clone_outcome = "clone_from_raises") => fetch_result' = None

\* C20: for a URL accepted by validate_github_url, fetch with
\* force_refresh=True always goes on to clone, fetch with
\* force_refresh=False returns the cached path without cloning exactly
\* when the cached directory is a non-bare repository younger than
\* cache_expiry_days; a Path is returned only in those two cases, None for
\* an invalid URL or a failed clone, and an invalid URL never triggers a
\* clone or a cache deletion.
C20_Original ==
    [][FetchReturns => FetchContract(validate_github_url(url))]_vars

-----------------------------------------------------------------------------
(* Properties of the recommendation rules *)

\* The returned list holds a recommendation with this title
HasTitle(title) ==
    \E k \in 1..Len(recommendations) : recommendations[k].title = title

\* C21: the if/elif pairs never both fire in one call of
\* generate_recommendations, no title occurs twice and the list has at most
\* 11 elements.
C21_ExclusiveRules ==
    Recommended =>
        /\ ~(HasTitle("Reduce Code Complexity") /\ HasTitle("Optimize Complex Functions"))
        /\ ~(HasTitle("Add Unit Tests") /\ HasTitle("Improve Test Coverage"))
        /\ ~(HasTitle("Add Project Documentation") /\ HasTitle("Enhance Documentation"))
        /\ \A i, j \in 1..Len(recommendations) :
              recommendations[i].title = recommendations[j].title => i = j
        /\ Len(recommendations) <= 11

\* A call in which the second branch of each of the three pairs fired
C21_Witness ==
    /\ Recommended
    /\ HasTitle("Optimize Complex Functions")
    /\ HasTitle("Improve Test Coverage")
    /\ HasTitle("Enhance Documentation")

-----------------------------------------------------------------------------
(* Properties of the stage order in SpecPipeline *)

PipelineOrder == <<"fetch", "scan", "analyze", "score", "recommend", "report">>

\* What holds of every state of a run of evaluate
StagesInOrder ==
    /\ Len(stages) <= Len(PipelineOrder)
    /\ stages = SubSeq(PipelineOrder, 1, Len(stages))
    /\ Started("analyze") => project_stats # None
    /\ Started("score") => quality_metrics # None
    /\ Started("recommend") => scores # None
    /\ fetched = None => ~Started("scan")
    /\ result = "True" => (report # "none" /\ stages = PipelineOrder)
    /\ (result # "running" /\ output_format \notin {"terminal", "json"}) => result = "False"
    /\ exit_code # None => exit_code = Some(IF result = "True" THEN 0 ELSE 1)

\* An exception in a stage, or an interrupt, is answered by returning False
RaiseReturnsFalse == p_pc = "except" => (result' = "False" /\ p_pc' = "done")

\* C22: the stages run in the order fetch, scan, analyze, score, recommend,
\* report, each on the complete result of the one before; after fetch
\* returned None no later stage starts; evaluate returns True only after a
\* report was produced, False when a stage raises or the format is
\* unknown, and main returns 0 iff evaluate returned True.
C22_StageOrder == []StagesInOrder /\ [][RaiseReturnsFalse]_vars

\* main returned 0 after a JSON report
C22_Witness ==
    /\ p_pc = "exited"
    /\ exit_code = Some(0)
    /\ report = "json"
    /\ stages = PipelineOrder

-----------------------------------------------------------------------------
(* Properties of the block state of count_lines *)

\* The line holds '*/'
IsCloser(l) == "closer" \in DOMAIN l

\* The lines are one block comment, opened at line i by a line that holds
\* '/*' and closed at line j by a line that holds '*/', among lines that
\* are neither blank nor openers nor closers
ClosedBlock(lines, i, j) ==
    /\ i < j
    /\ lines[i] = OpenerLine
    /\ IsCloser(lines[j])
    /\ \A k \in 1..Len(lines) :
          k \notin {i, j} => (lines[k] = PlainLine \/ lines[k] = MarkerLine)

\* The plain lines outside the block
PlainOutside(lines, i, j) ==
    Cardinality({k \in 1..Len(lines) : lines[k] = PlainLine /\ (k < i \/ k > j)})

\* C23: after a block comment opened by a line containing '/*' is closed by
\* a later line containing '*/', the state is NORMAL again and the following
\* non-blank lines without a comment marker are classified as code.
C23_Original ==
    (ScanDone /\ Len(fs) = 1 /\ CountedFiles = {1}) =>
        \A i, j \in 1..Len(fs[1].lines) :
            ClosedBlock(fs[1].lines, i, j) =>
                scan_stats.total_code_lines = PlainOutside(fs[1].lines, i, j)

-----------------------------------------------------------------------------
(* Properties of the complexity ladder *)

\* The average complexities compared with the one that was scored
ComplexityGrid ==
    {0, F(3), F(5), 501, F(10), 1001, F(15), 1501, F(18), F(20), 2001, F(22), 2499,
     F(25), 2501, F(30), F(40), F(45), F(60)}

\* calculate_code_quality_score for the scored metrics with another
\* average_complexity
QualityScoreAt(c) ==
    calculate_code_quality_score(config, [quality_metrics EXCEPT !.average_complexity = c])

\* Scores were computed from analysed files with the default thresholds
ScoredWithDefaultThresholds ==
    /\ Scored
    /\ quality_metrics.files_analyzed > 0
    /\ config.scoring.thresholds.complexity = DefaultConfig.scoring.thresholds.complexity

\* The pair straddles the poor threshold where the ladder steps up:
\* 15 < c1 <= 20 < c2 < 25
StepsUp(c1, c2) == F(15) < c1 /\ c1 <= F(20) /\ F(20) < c2 /\ c2 < F(25)

-----------------------------------------------------------------------------
(* Properties of the test filter and of the Lizard path *)

\* What analyze_repository returns for the same tree below a root whose
\* path does, or does not, hold 'test'
UnderOtherRoot == analyze_repository(repo, ~root_test, max_files)

\* C25: whether a file is excluded as test code depends only on its path
\* relative to repo_path: the same tree under two different roots (one of
\* them with 'test' in its path) yields the same files_analyzed and the same
\* QualityMetrics aggregates.
C25_Original ==
    AnalyzeDone =>
        /\ metrics.files_analyzed = UnderOtherRoot.files_analyzed
        /\ metrics = UnderOtherRoot

\* The recorded file came through the Lizard path
ViaLizard(fm) == repo[fm.file_path].ext # ".py"

\* Every recorded file came through the Lizard path
AllViaLizard == \A k \in 1..Len(metrics.file_metrics) : ViaLizard(metrics.file_metrics[k])

\* The maintainability score before clamping, had no file been problematic
RawWithoutProblematic(stats) ==
    MaintainabilityRaw([metrics EXCEPT !.problematic_files = <<>>], stats)

\* C26: every file analysed through the Lizard path is recorded with
\* maintainability 0 and is appended to problematic_files whatever its
\* complexity; when all analysed files are non-Python,
\* len(problematic_files) == files_analyzed, average_maintainability stays 0
\* and the problematic-ratio penalty of 20 applies to the maintainability
\* score.
C26_LizardProblematic ==
    /\ \A k \in 1..Len(metrics.file_metrics) :
          ViaLizard(metrics.file_metrics[k]) =>
             /\ metrics.file_metrics[k].maintainability = 0
             /\ \E p \in 1..Len(metrics.problematic_files) :
                   metrics.problematic_files[p] = metrics.file_metrics[k].file_path
    /\ (AnalyzeDone /\ AllViaLizard) =>
          /\ Len(metrics.problematic_files) = metrics.files_analyzed
          /\ metrics.average_maintainability = 0
          /\ metrics.files_analyzed > 0 =>
                \A stats \in FewStats :
                    MaintainabilityRaw(metrics, stats)
                       = RawWithoutProblematic(stats) - F(20) * 100

\* A returned analysis of non-Python files only, one of them of complexity 2
C26_Witness ==
    /\ AnalyzeDone
    /\ AllViaLizard
    /\ metrics.files_analyzed = 2
    /\ \E k \in 1..2 : metrics.file_metrics[k].complexity = F(2)
    /\ Len(metrics.problematic_files) = 2

-----------------------------------------------------------------------------
(* Properties of feature detection under ignore patterns *)

\* The entry lies beneath a directory named node_modules
BeneathNodeModules(path) == \E i \in 1..(Len(path) - 1) : path[i] = Name_node_modules

\* The same tree with its node_modules directories emptied
RECURSIVE EmptiedNodeModules(_)
EmptiedNodeModules(tree) ==
    IF tree = <<>> THEN <<>>
    ELSE (IF BeneathNodeModules(Head(tree).path) THEN <<>> ELSE <<Head(tree)>>)
         \o EmptiedNodeModules(Tail(tree))

\* C27: has_tests, has_docs and folders_by_type['tests'] do not depend on
\* anything beneath an ignored directory: two repositories that differ only
\* inside node_modules, scanned with patterns that name it, get the same
\* flags and folder lists and hence the same architecture, test-coverage and
\* maintainability scores.
C27_Original ==
    (ScanDone /\ PatternsContainNodeModules) =>
        LET other == scan(ignore_patterns, EmptiedNodeModules(fs))
        IN /\ scan_stats.has_tests = other.has_tests
           /\ scan_stats.has_docs = other.has_docs
           /\ scan_stats.folders_by_type = other.folders_by_type
           /\ calculate_architecture_score(scan_stats) = calculate_architecture_score(other)
           /\ calculate_test_coverage_score(scan_stats) = calculate_test_coverage_score(other)
           /\ calculate_maintainability_score(QualityMetrics, scan_stats)
                 = calculate_maintainability_score(QualityMetrics, other)

\* ---------------------------------------------------------------------
\* C28  The files analysed and the files counted
\* ---------------------------------------------------------------------

\* Steps 2 and 3 have both run over a root that is a directory
ScannedAndAnalyzed ==
    /\ project_stats # None
    /\ quality_metrics # None
    /\ repo_root = "directory"

\* The path in the scanner's tree of the file behind a FileQuality record
ScannerPath(fq) == checkout.fs[checkout.at[fq.file_path]].path

\* The files of file_metrics that the scanner's default patterns ignore
IgnoredAnalysed ==
    {k \in 1..Len(quality_metrics.file_metrics) :
        should_ignore(None, ScannerPath(quality_metrics.file_metrics[k]))}

C29_EnhanceUnreachable ==
    Recommended =>
        /\ scores.documentation_score = IF project_stats.has_docs THEN F(100) ELSE F(30)
        /\ ~HasTitle("Enhance Documentation")
        /\ HasTitle("Add Project Documentation") <=> ~project_stats.has_docs

\* Both sides of the rule: a run with documentation found (nothing on
\* documentation recommended) ...
C29_Witness ==
    /\ Recommended
    /\ project_stats.has_docs
    /\ scores.documentation_score = F(100)
    /\ recommendations # <<>>
    /\ ~HasTitle("Add Project Documentation")

\* ---------------------------------------------------------------------
\* C30  The cache after a failed fetch
\* ---------------------------------------------------------------------

\* A clone attempt ends the call of fetch with None
CloneFails == f_pc = "clone" /\ f_pc' = "done" /\ fetch_result' = None

\* C30 as stated: when a clone attempt fails, a cached copy that existed
\* before the call still exists afterwards, as it was, so that a later
\* fetch without force_refresh can return it while it has not expired
C30_KeepsCache == (CloneFails /\ cache.exists) => cache' = cache

C30_Original == [][C30_KeepsCache]_vars

=========================================================================
